---- MODULE Spec2Model ----
(***************************************************************************)
(* State-machine model of the vscode-todolist extension host:              *)
(*   - TodoRepository     (mementos, undo snapshots)                       *)
(*   - domain/todo        (normalizePositions, reorderTodosByOrder)        *)
(*   - AutoDeleteCoordinator (delay / fade timers)                         *)
(*   - TodoWebviewHost / TodoWebviewProvider (readiness buffering)         *)
(*   - adapters/webviewRouter + services/todoOperations (message routing)  *)
(*                                                                         *)
(* Every `await` on the host (memento update, modal confirmation, undo     *)
(* toast) is a suspension point: the code before it is one atomic step,    *)
(* the continuation is a later step, and other messages and timers may be  *)
(* handled in between.                                                     *)
(***************************************************************************)
EXTENDS Integers, Sequences, FiniteSets, TLC

\* ------------------------------------------------------------------ bounds
\* number of inbound webview messages handled in one behaviour (the clock)
MaxClock == 2
\* number of handlers / timer callbacks suspended at an await at one time
MaxTasks == 2
\* number of times VS Code resolves (loads or reloads) each webview view
MaxLoads == 1

\* number of messages posted to the host in the host harness
MaxPosts == 3

\* --------------------------------------------------------- program constants
SCHEMA_VERSION == 1

\* vscode.workspace.workspaceFolders (folder keys)
Folders == {"P1", "P2"}
Modes == {"global", "projects"}

GlobalTarget == [scope |-> "global", workspaceFolder |-> ""]
WorkspaceTarget(f) == [scope |-> "workspace", workspaceFolder |-> f]
NoTarget == [scope |-> "none", workspaceFolder |-> ""]
Targets == {GlobalTarget} \cup {WorkspaceTarget(f) : f \in Folders}

\* scope descriptors a webview message can carry (the last one lacks its folder)
WebviewScopes == Targets \cup {WorkspaceTarget("")}

VARIABLES
    globalState,      \* memento slot 'todo.globalState'
    workspaceState,   \* memento slot 'todo.workspaceState'
    undoSnapshots,    \* TodoRepository.undoSnapshots : Map<ScopeKey, Todo[]>
    timers,           \* AutoDeleteCoordinator.timers : Map<key, handle>
    timeouts,         \* live setTimeout handles of the coordinator (runtime timer queue)
    cleanups,         \* live setTimeout callbacks consuming a snapshot after the TTL
    providers,        \* TodoWebviewHost.providers : mode -> TodoWebviewProvider fields
    webviews,         \* the webview runtime behind each view: none / loading / running
    config,           \* the todo.* settings
    tasks,            \* async handlers suspended at an await
    now,              \* clock (new Date()), one tick per inbound message
    nextId,           \* source of fresh ids (randomUUID)
    active,           \* FALSE once the extension's subscriptions were disposed
    sched,            \* history: one record per AutoDeleteCoordinator.schedule call that started a timer
                      \* (cues sent, removal callbacks run, phase it was stopped in, item reopened)
    origin,           \* history: id -> scope target the item was created in
    lastState,        \* history: per mode, the most recent stateUpdate the webview received
    lastWrite,        \* history: the scope and the array handed to the most recent persistTodos
    posted,           \* history (host harness): per mode, every message handed to postMessage
    delivered,        \* history (host harness): per mode, every message the webview received
    lastDone,         \* history: the handler that returned most recently
    calls             \* history (repository harnesses): the calls made, with what they returned

vars == <<globalState, workspaceState, undoSnapshots, timers, timeouts, cleanups,
          providers, webviews, config, tasks, now, nextId, active, sched, origin,
          lastState, lastWrite, posted, delivered, lastDone, calls>>

\* ------------------------------------------------------------ sequence helpers
Range(s) == {s[i] : i \in DOMAIN s}

RECURSIVE SelectSeqBy(_, _)
\* s.filter(i => s[i].id \in keep)
SelectSeqBy(s, keep) ==
    IF s = <<>> THEN <<>>
    ELSE IF Head(s).id \in keep
         THEN <<Head(s)>> \o SelectSeqBy(Tail(s), keep)
         ELSE SelectSeqBy(Tail(s), keep)

Ids(s) == {s[i].id : i \in DOMAIN s}

Max(S) == CHOOSE m \in S : \A x \in S : x <= m

\* ------------------------------------------------------------------ titles
\* a title is a sequence of characters; " " is white space
RECURSIVE TrimStart(_)
TrimStart(t) == IF t # <<>> /\ Head(t) = " " THEN TrimStart(Tail(t)) ELSE t

RECURSIVE TrimEnd(_)
TrimEnd(t) ==
    IF t # <<>> /\ t[Len(t)] = " " THEN TrimEnd(SubSeq(t, 1, Len(t) - 1)) ELSE t

\* mutation: the title is used as typed
TrimNone(t) == t

\* String.prototype.trim
Trim(t) == TrimEnd(TrimStart(t))

\* --------------------------------------------------------------- TodoRepository
\* toTodo: a persisted entity plus the scope it was read from
ToTodo(scope, workspaceFolder, entity) ==
    [id |-> entity.id, title |-> entity.title, completed |-> entity.completed,
     position |-> entity.position, createdAt |-> entity.createdAt,
     updatedAt |-> entity.updatedAt,
     scope |-> scope, workspaceFolder |-> workspaceFolder]

\* toEntity: drops scope and workspaceFolder
ToEntity(todo) ==
    [id |-> todo.id, title |-> todo.title, completed |-> todo.completed,
     position |-> todo.position, createdAt |-> todo.createdAt,
     updatedAt |-> todo.updatedAt]

DEFAULT_GLOBAL_STATE == [version |-> SCHEMA_VERSION, todos |-> <<>>]
DEFAULT_WORKSPACE_STATE == [version |-> SCHEMA_VERSION, folders |-> <<>>]

\* mutation: the stored envelope is used whatever its version
GetGlobalStateAnyVersion ==
    IF ~globalState.present
    THEN DEFAULT_GLOBAL_STATE
    ELSE [version |-> SCHEMA_VERSION, todos |-> globalState.todos]

GetGlobalState ==
    IF ~globalState.present \/ globalState.version # SCHEMA_VERSION
    THEN DEFAULT_GLOBAL_STATE
    ELSE [version |-> SCHEMA_VERSION, todos |-> globalState.todos]

GetWorkspaceState ==
    IF ~workspaceState.present \/ workspaceState.version # SCHEMA_VERSION
    THEN DEFAULT_WORKSPACE_STATE
    ELSE [version |-> SCHEMA_VERSION, folders |-> workspaceState.folders]

GetGlobalTodos ==
    LET state == GetGlobalState
    IN [i \in DOMAIN state.todos |-> ToTodo("global", "", state.todos[i])]

GetWorkspaceTodos(workspaceFolder) ==
    LET state == GetWorkspaceState
        todos == IF workspaceFolder \in DOMAIN state.folders
                 THEN state.folders[workspaceFolder] ELSE <<>>
    IN [i \in DOMAIN todos |-> ToTodo("workspace", workspaceFolder, todos[i])]

\* the value handed to globalState.update
SaveGlobalTodos(todos) ==
    [present |-> TRUE, version |-> SCHEMA_VERSION,
     todos |-> [i \in DOMAIN todos |-> ToEntity(todos[i])]]

\* mutation: the saved workspace state holds the written folder only
SaveWorkspaceTodosFolderOnly(workspaceFolder, todos) ==
    [present |-> TRUE, version |-> GetWorkspaceState.version,
     folders |-> [f \in {workspaceFolder} |-> [i \in DOMAIN todos |-> ToEntity(todos[i])]]]

\* the value handed to workspaceState.update: the current state with one folder replaced
SaveWorkspaceTodos(workspaceFolder, todos) ==
    LET state == GetWorkspaceState
        entities == [i \in DOMAIN todos |-> ToEntity(todos[i])]
    IN [present |-> TRUE, version |-> state.version,
        folders |-> [f \in DOMAIN state.folders \cup {workspaceFolder} |->
                        IF f = workspaceFolder THEN entities ELSE state.folders[f]]]

ReadTodos(scope) ==
    IF scope.scope = "global" THEN GetGlobalTodos
    ELSE GetWorkspaceTodos(scope.workspaceFolder)

\* mutation: every bucket shares the key of the global bucket
ScopeKeyShared(scope) == "global"

ScopeKey(scope) ==
    IF scope.scope = "global" THEN "global" ELSE "workspace:" \o scope.workspaceFolder

ScopeKeys == {ScopeKey(t) : t \in Targets}

\* mutation: a capture leaves a slot that is already filled as it is
CaptureSnapshotIfAbsent(scopeKey, todos) ==
    [k \in DOMAIN undoSnapshots \cup {scopeKey} |->
        IF k \in DOMAIN undoSnapshots THEN undoSnapshots[k] ELSE todos]

\* captureSnapshot: one slot per key, a second capture overwrites
CaptureSnapshot(scopeKey, todos) ==
    [k \in DOMAIN undoSnapshots \cup {scopeKey} |->
        IF k = scopeKey THEN todos ELSE undoSnapshots[k]]

\* mutation: the snapshot stays in the map after it was read
ConsumeSnapshotKeeps(scopeKey) == undoSnapshots

\* consumeSnapshot: the map after the delete
ConsumeSnapshot(scopeKey) ==
    [k \in DOMAIN undoSnapshots \ {scopeKey} |-> undoSnapshots[k]]

\* consumeSnapshot: TRUE iff it returns a snapshot (not undefined)
HasSnapshot(scopeKey) == scopeKey \in DOMAIN undoSnapshots

\* consumeSnapshot: the value it returns
SnapshotOf(scopeKey) ==
    IF scopeKey \in DOMAIN undoSnapshots
    THEN [defined |-> TRUE, todos |-> undoSnapshots[scopeKey]]
    ELSE [defined |-> FALSE, todos |-> <<>>]

\* mutation: the largest position in use is handed out again
NextPositionReused(scope) ==
    LET siblings == ReadTodos(scope)
    IN IF Len(siblings) = 0 THEN 1
       ELSE Max({siblings[i].position : i \in DOMAIN siblings})

\* nextPosition
NextPosition(scope) ==
    LET siblings == ReadTodos(scope)
    IN IF Len(siblings) = 0 THEN 1
       ELSE Max({siblings[i].position : i \in DOMAIN siblings}) + 1

\* createTodo (the caller has checked that a workspace scope carries its folder)
CreateTodo(title, scope) ==
    [id |-> nextId, title |-> title, completed |-> FALSE,
     scope |-> scope.scope,
     workspaceFolder |-> IF scope.scope = "workspace" THEN scope.workspaceFolder ELSE "",
     position |-> NextPosition(scope),
     createdAt |-> now, updatedAt |-> now]

\* mutation: the workspace folder is not checked
CreateTodoCallUnchecked(input) ==
    LET made == CreateTodo(input.title, [scope |-> input.scope,
                                         workspaceFolder |-> input.workspaceFolder])
    IN [threw |-> FALSE,
        result |-> <<IF input.position # 0 THEN [made EXCEPT !.position = input.position]
                     ELSE made>>]

\* createTodo with its input as passed: throws, or returns the todo (result holds it);
\* a workspaceFolder of "" and a position of 0 stand for an absent field
CreateTodoCall(input) ==
    IF input.scope = "workspace" /\ input.workspaceFolder = ""
    THEN [threw |-> TRUE, result |-> <<>>]
    ELSE LET made == CreateTodo(input.title, [scope |-> input.scope,
                                              workspaceFolder |-> input.workspaceFolder])
         IN [threw |-> FALSE,
             result |-> <<IF input.position # 0 THEN [made EXCEPT !.position = input.position]
                          ELSE made>>]

\* ------------------------------------------------------------------ domain/todo
RECURSIVE InsertByPosition(_, _)
\* place t behind every element whose position is not larger (Array.prototype.sort is stable)
InsertByPosition(sorted, t) ==
    IF sorted = <<>> THEN <<t>>
    ELSE IF Head(sorted).position <= t.position
         THEN <<Head(sorted)>> \o InsertByPosition(Tail(sorted), t)
         ELSE <<t>> \o sorted

RECURSIVE SortByPositionDescending(_)
\* mutation: the comparator is b.position - a.position
SortByPositionDescending(todos) ==
    IF todos = <<>> THEN <<>>
    ELSE LET rest == SortByPositionDescending(SubSeq(todos, 1, Len(todos) - 1))
             t == todos[Len(todos)]
             k == Cardinality({i \in DOMAIN rest : rest[i].position >= t.position})
         IN SubSeq(rest, 1, k) \o <<t>> \o SubSeq(rest, k + 1, Len(rest))

RECURSIVE SortByPosition(_)
\* [...todos].sort((a, b) => a.position - b.position)
SortByPosition(todos) ==
    IF todos = <<>> THEN <<>>
    ELSE InsertByPosition(SortByPosition(SubSeq(todos, 1, Len(todos) - 1)), todos[Len(todos)])

Renumber(todos) == [i \in DOMAIN todos |-> [todos[i] EXCEPT !.position = i]]

NormalizePositions(todos) == Renumber(SortByPosition(todos))

RECURSIVE PickInOrderRepeats(_, _, _)
\* mutation: a listed todo stays in the lookup and is pushed again when its id repeats
PickInOrderRepeats(todos, order, taken) ==
    IF order = <<>> THEN <<>>
    ELSE LET id == Head(order)
         IN IF id \in Ids(todos)
            THEN SelectSeqBy(todos, {id}) \o PickInOrderRepeats(todos, Tail(order), taken)
            ELSE PickInOrderRepeats(todos, Tail(order), taken)

RECURSIVE PickInOrder(_, _, _)
\* order.forEach: push the todo the first time its id occurs, skip unknown ids
PickInOrder(todos, order, taken) ==
    IF order = <<>> THEN <<>>
    ELSE LET id == Head(order)
         IN IF id \in Ids(todos) \ taken
            THEN SelectSeqBy(todos, {id}) \o PickInOrder(todos, Tail(order), taken \cup {id})
            ELSE PickInOrder(todos, Tail(order), taken)

\* mutation: positions are renumbered, updatedAt is never refreshed
ReorderTodosByOrderKeepsStamp(todos, order) ==
    LET listed == PickInOrder(todos, order, {})
        newOrder == listed \o SelectSeqBy(todos, Ids(todos) \ Ids(listed))
    IN [todos |-> Renumber(newOrder),
        changed |-> \E i \in DOMAIN newOrder : newOrder[i].position # i]

\* reorderTodosByOrder: the reordered array and the returned flag
ReorderTodosByOrder(todos, order) ==
    LET listed == PickInOrder(todos, order, {})
        newOrder == listed \o SelectSeqBy(todos, Ids(todos) \ Ids(listed))
        moved == [i \in DOMAIN newOrder |->
                    IF newOrder[i].position # i
                    THEN [newOrder[i] EXCEPT !.position = i, !.updatedAt = now]
                    ELSE newOrder[i]]
    IN [todos |-> moved,
        changed |-> \E i \in DOMAIN newOrder : newOrder[i].position # i]

\* TodoRepository.persistTodos: the two memento values after the save (g, w) and, for the
\* history, the array that was handed in (written)
PersistTodos(scope, todos) ==
    LET normalized == NormalizePositions(todos)
    IN IF scope.scope = "global"
       THEN [g |-> SaveGlobalTodos(normalized), w |-> workspaceState,
             written |-> [scope |-> scope, todos |-> todos]]
       ELSE [g |-> globalState, w |-> SaveWorkspaceTodos(scope.workspaceFolder, normalized),
             written |-> [scope |-> scope, todos |-> todos]]

\* mutation: the inline normalisation sorts but does not renumber
OpsPersistTodosSortedOnly(scope, todos) ==
    LET sorted == SortByPosition(todos)
    IN IF scope.scope = "global"
       THEN [g |-> SaveGlobalTodos(sorted), w |-> workspaceState,
             written |-> [scope |-> scope, todos |-> todos]]
       ELSE [g |-> globalState, w |-> SaveWorkspaceTodos(scope.workspaceFolder, sorted),
             written |-> [scope |-> scope, todos |-> todos]]

\* services/todoOperations persistTodos: sorts and renumbers inline, then saves
OpsPersistTodos(scope, todos) ==
    LET sorted == SortByPosition(todos)
        normalized == [i \in DOMAIN sorted |-> [sorted[i] EXCEPT !.position = i]]
    IN IF scope.scope = "global"
       THEN [g |-> SaveGlobalTodos(normalized), w |-> workspaceState,
             written |-> [scope |-> scope, todos |-> todos]]
       ELSE [g |-> globalState, w |-> SaveWorkspaceTodos(scope.workspaceFolder, normalized),
             written |-> [scope |-> scope, todos |-> todos]]

\* ---------------------------------------------------------------- webviewState
ToTodoState(todo) ==
    [id |-> todo.id, title |-> todo.title, completed |-> todo.completed,
     position |-> todo.position, scope |-> todo.scope,
     workspaceFolder |-> todo.workspaceFolder,
     createdAt |-> todo.createdAt, updatedAt |-> todo.updatedAt]

\* buildWebviewStateSnapshot; the empty-state kind stands for the label picked from its pool,
\* labels, strings and generatedAt are display text and left out
BuildWebviewStateSnapshot(emptyKind) ==
    LET view(todos) == LET s == SortByPosition(todos)
                       IN [i \in DOMAIN s |-> ToTodoState(s[i])]
    IN [global |-> [emptyKind |-> emptyKind, todos |-> view(GetGlobalTodos)],
        folders |-> [f \in Folders |->
                        [key |-> f, emptyKind |-> emptyKind,
                         todos |-> view(GetWorkspaceTodos(f))]]]

StateUpdate(emptyKind) ==
    [type |-> "stateUpdate", payload |-> BuildWebviewStateSnapshot(emptyKind)]

\* ---------------------------------------------------------------- scopeMapping
\* mutation: every scope maps to the global provider
ScopeToProviderModeGlobal(scope) == "global"

ScopeToProviderMode(scope) == IF scope.scope = "global" THEN "global" ELSE "projects"

\* mutation: a workspace descriptor is taken as a target whether or not it names a folder
ScopeFromWebviewScopeUnchecked(scope) ==
    IF scope.scope = "global" THEN GlobalTarget
    ELSE WorkspaceTarget(scope.workspaceFolder)

\* scopeFromWebviewScope: NoTarget stands for undefined
ScopeFromWebviewScope(scope) ==
    IF scope.scope = "global" THEN GlobalTarget
    ELSE IF scope.workspaceFolder = "" THEN NoTarget
    ELSE WorkspaceTarget(scope.workspaceFolder)

\* ------------------------------------------------------------ TodoWebviewProvider
\* Each operation yields the provider's new fields (p) and the messages it hands to
\* webviewView.webview.postMessage (out).
\* mutation: postMessage hands every message to the webview at once
ProviderPostMessageUnbuffered(p, message) == [p |-> p, out |-> <<message>>]

ProviderPostMessage(p, message) ==
    IF ~p.webviewView \/ ~p.ready
    THEN [p |-> [p EXCEPT !.pendingMessages = Append(@, message)], out |-> <<>>]
    ELSE [p |-> p, out |-> <<message>>]

FlushPendingMessages(p) ==
    IF ~p.webviewView \/ ~p.ready \/ Len(p.pendingMessages) = 0
    THEN [p |-> p, out |-> <<>>]
    ELSE [p |-> [p EXCEPT !.pendingMessages = <<>>], out |-> p.pendingMessages]

MarkReady(p) == FlushPendingMessages([p EXCEPT !.ready = TRUE])

ResolveWebviewView(p) == [p EXCEPT !.webviewView = TRUE, !.ready = FALSE]

ProviderDispose(p) ==
    [p EXCEPT !.webviewView = FALSE, !.ready = FALSE, !.pendingMessages = <<>>]

\* TodoWebviewHost.postMessage / broadcast: per mode the result of the provider call
HostPostMessage(ps, mode, message) ==
    [m \in Modes |-> IF m = mode THEN ProviderPostMessage(ps[m], message)
                     ELSE [p |-> ps[m], out |-> <<>>]]

\* mutation: the broadcast reaches the global view only
HostBroadcastGlobalOnly(ps, message) == HostPostMessage(ps, "global", message)

HostBroadcast(ps, message) == [m \in Modes |-> ProviderPostMessage(ps[m], message)]

\* mutation: a ready message marks every provider ready
HostHandleMessageMarksAll(ps, mode, type) ==
    [m \in Modes |-> IF type = "webviewReady" THEN MarkReady(ps[m])
                     ELSE [p |-> ps[m], out |-> <<>>]]

\* TodoWebviewHost.handleMessage, the part before the event is fired
HostHandleMessage(ps, mode, type) ==
    [m \in Modes |-> IF m = mode /\ type = "webviewReady" THEN MarkReady(ps[m])
                     ELSE [p |-> ps[m], out |-> <<>>]]

ProvidersOf(res) == [m \in Modes |-> res[m].p]

\* two host calls one after the other: the outputs are concatenated
Then(res1, res2) == [m \in Modes |-> [p |-> res2[m].p, out |-> res1[m].out \o res2[m].out]]

RECURSIVE LastStateUpdate(_, _)
\* what the webview shows after receiving out: the payload of the last stateUpdate
LastStateUpdate(prev, out) ==
    IF out = <<>> THEN prev
    ELSE LastStateUpdate(IF Head(out).type = "stateUpdate"
                         THEN [has |-> TRUE, payload |-> Head(out).payload]
                         ELSE prev, Tail(out))

Received(res) == [m \in Modes |-> LastStateUpdate(lastState[m], res[m].out)]

\* ------------------------------------------------------- AutoDeleteCoordinator
\* A timer handle is <<n, phase>>: n is the index in sched of the schedule call that
\* created it, phase is "delay" (the outer setTimeout) or "fade" (the removal timer).
\* The operations work on T = [timers, timeouts, sched].
AutoDelete == [timers |-> timers, timeouts |-> timeouts, sched |-> sched]

BuildKey(scope, todoId) ==
    <<IF scope.scope = "global" THEN "global" ELSE scope.workspaceFolder, todoId>>

\* clearTimeout(handle); sched remembers in which phase the timer was stopped
ClearTimeout(T, handle) ==
    [T EXCEPT !.timeouts = @ \ {handle},
              !.sched = IF handle \in T.timeouts
                        THEN [@ EXCEPT ![handle[1]].stopped = handle[2]]
                        ELSE @]

MapDelete(map, key) == [k \in DOMAIN map \ {key} |-> map[k]]

MapSet(map, key, value) == [k \in DOMAIN map \cup {key} |-> IF k = key THEN value ELSE map[k]]

\* mutation: cancel forgets the map entry but leaves the timeout running
CancelKeepsTimeout(T, scope, todoId) ==
    LET key == BuildKey(scope, todoId)
    IN IF key \in DOMAIN T.timers
       THEN [T EXCEPT !.timers = MapDelete(@, key),
                      !.sched[T.timers[key][1]].stopped = T.timers[key][2]]
       ELSE T

\* cancel
Cancel(T, scope, todoId) ==
    LET key == BuildKey(scope, todoId)
    IN IF key \in DOMAIN T.timers
       THEN [ClearTimeout(T, T.timers[key]) EXCEPT !.timers = MapDelete(@, key)]
       ELSE T

\* mutation: the new timer is started without cancelling the one the key holds
ScheduleNoCancel(T, scope, todoId, configuration) ==
    IF ~configuration.autoDeleteCompleted
    THEN Cancel(T, scope, todoId)
    ELSE LET key == BuildKey(scope, todoId)
             n == Len(T.sched) + 1
         IN [timers |-> MapSet(T.timers, key, <<n, "delay">>),
             timeouts |-> T.timeouts \cup {<<n, "delay">>},
             sched |-> Append(T.sched, [scope |-> scope, todoId |-> todoId,
                                        cues |-> 0, removals |-> 0, stopped |-> "no",
                                        reopened |-> FALSE])]

\* mutation: the timer is started whatever the setting says
ScheduleAlways(T, scope, todoId, configuration) ==
    LET key == BuildKey(scope, todoId)
        C == Cancel(T, scope, todoId)
        n == Len(C.sched) + 1
    IN [timers |-> MapSet(C.timers, key, <<n, "delay">>),
        timeouts |-> C.timeouts \cup {<<n, "delay">>},
        sched |-> Append(C.sched, [scope |-> scope, todoId |-> todoId,
                                   cues |-> 0, removals |-> 0, stopped |-> "no",
                                   reopened |-> FALSE])]

\* schedule
Schedule(T, scope, todoId, configuration) ==
    IF ~configuration.autoDeleteCompleted
    THEN Cancel(T, scope, todoId)
    ELSE LET key == BuildKey(scope, todoId)
             C == Cancel(T, scope, todoId)
             n == Len(C.sched) + 1
         IN [timers |-> MapSet(C.timers, key, <<n, "delay">>),
             timeouts |-> C.timeouts \cup {<<n, "delay">>},
             sched |-> Append(C.sched, [scope |-> scope, todoId |-> todoId,
                                        cues |-> 0, removals |-> 0, stopped |-> "no",
                                        reopened |-> FALSE])]

RECURSIVE CancelScope(_, _, _)
\* cancelScope
CancelScope(T, scope, todos) ==
    IF todos = <<>> THEN T
    ELSE CancelScope(Cancel(T, scope, Head(todos).id), scope, Tail(todos))

RECURSIVE ClearAll(_, _)
ClearAll(T, handles) ==
    IF handles = {} THEN T
    ELSE LET h == CHOOSE x \in handles : TRUE
         IN ClearAll(ClearTimeout(T, h), handles \ {h})

\* dispose
AutoDeleteDispose(T) ==
    [ClearAll(T, {T.timers[k] : k \in DOMAIN T.timers}) EXCEPT !.timers = <<>>]

\* the outer setTimeout callback up to sendCue: arm the removal timer, store it under the key
DelayExpired(T, n) ==
    LET key == BuildKey(T.sched[n].scope, T.sched[n].todoId)
    IN [timers |-> MapSet(T.timers, key, <<n, "fade">>),
        timeouts |-> (T.timeouts \ {<<n, "delay">>}) \cup {<<n, "fade">>},
        sched |-> [T.sched EXCEPT ![n].cues = @ + 1]]

\* mutation: the removal timer's callback leaves its handle in the map
FadeExpiredKeepsKey(T, n) ==
    [timers |-> T.timers,
     timeouts |-> T.timeouts \ {<<n, "fade">>},
     sched |-> [T.sched EXCEPT ![n].removals = @ + 1]]

\* the removal timer's callback up to the removeTodo handler
FadeExpired(T, n) ==
    LET key == BuildKey(T.sched[n].scope, T.sched[n].todoId)
    IN [timers |-> MapDelete(T.timers, key),
        timeouts |-> T.timeouts \ {<<n, "fade">>},
        sched |-> [T.sched EXCEPT ![n].removals = @ + 1]]

\* what a handler passed to the coordinator can do when it is called
CallbackOutcomes == {"returns", "throws"}

\* the whole outer setTimeout callback: the removal timer is armed and stored, then sendCue
\* runs inside try / catch; settled is how the async callback's promise ends
DelayCallback(T, n, outcome) ==
    [T |-> DelayExpired(T, n), settled |-> "fulfilled", logged |-> outcome = "throws"]

\* mutation: removeTodo is awaited without try / catch, before the key is deleted
RemovalCallbackUnguarded(T, n, outcome) ==
    IF outcome = "throws"
    THEN [T |-> [T EXCEPT !.timeouts = @ \ {<<n, "fade">>}, !.sched[n].removals = @ + 1],
          settled |-> "rejected", logged |-> FALSE]
    ELSE [T |-> FadeExpired(T, n), settled |-> "fulfilled", logged |-> FALSE]

\* the whole removal timer callback: the key is deleted, then removeTodo is awaited
\* inside try / catch
RemovalCallback(T, n, outcome) ==
    [T |-> FadeExpired(T, n), settled |-> "fulfilled", logged |-> outcome = "throws"]

\* history: the item of a pending schedule was toggled back to active
Reopened(S, scope, todoId) ==
    [n \in DOMAIN S |->
        IF S[n].scope = scope /\ S[n].todoId = todoId /\ S[n].stopped = "no"
           /\ S[n].removals = 0
        THEN [S[n] EXCEPT !.reopened = TRUE] ELSE S[n]]

\* activate's sendCue handler
AutoDeleteCue(scope, todoId) ==
    [type |-> "autoDeleteCue", scope |-> scope, todoId |-> todoId]

\* ------------------------------------------------------------------- handlers
Idle == [pc |-> "idle", kind |-> "", scope |-> NoTarget, todoId |-> 0, todos |-> <<>>,
         completed |-> FALSE, w |-> 0, b |-> 0, clean |-> TRUE]

FreeSlots == {i \in 1..MaxTasks : tasks[i].pc = "idle"}

\* suspend the running handler at its await
Suspend(ts, task) ==
    LET slot == CHOOSE i \in FreeSlots : \A j \in FreeSlots : i <= j
    IN [ts EXCEPT ![slot] = task]

\* another operation acts on the bucket of the suspended handlers other than self
Touch(ts, scope, self) ==
    [i \in DOMAIN ts |->
        IF i # self /\ ts[i].pc # "idle" /\ ts[i].scope = scope
        THEN [ts[i] EXCEPT !.clean = FALSE] ELSE ts[i]]

Returned(kind, w, b) == [kind |-> kind, w |-> w, b |-> b]

\* ----------------------------------------------------------------------- Init
\* What an earlier session may have left in the mementos: nothing, or normalized buckets.
Seed(id, title, completed, position) ==
    [id |-> id, title |-> title, completed |-> completed, position |-> position,
     createdAt |-> 0, updatedAt |-> 0]

SeedStores ==
    { [g |-> [present |-> FALSE, version |-> 0, todos |-> <<>>],
       w |-> [present |-> FALSE, version |-> 0, folders |-> <<>>],
       origin |-> <<>>],
      [g |-> [present |-> TRUE, version |-> SCHEMA_VERSION,
              todos |-> <<Seed(1, <<"a">>, FALSE, 1), Seed(2, <<"b">>, TRUE, 2)>>],
       w |-> [present |-> TRUE, version |-> SCHEMA_VERSION,
              folders |-> [f \in {"P1"} |-> <<Seed(3, <<"c">>, FALSE, 1)>>]],
       origin |-> <<GlobalTarget, GlobalTarget, WorkspaceTarget("P1")>>] }

Configs == [confirmDestructiveActions : BOOLEAN, autoDeleteCompleted : BOOLEAN]

\* activate(): repository, host and coordinator are constructed, the first state
\* broadcast is buffered by both providers
Init ==
    /\ \E seed \in SeedStores :
          /\ globalState = seed.g
          /\ workspaceState = seed.w
          /\ origin = seed.origin
          /\ nextId = Len(seed.origin) + 1
    /\ config \in Configs
    /\ undoSnapshots = <<>>
    /\ timers = <<>>
    /\ timeouts = {}
    /\ cleanups = [k \in ScopeKeys |-> 0]
    /\ sched = <<>>
    /\ providers = [m \in Modes |->
                      [webviewView |-> FALSE, ready |-> FALSE,
                       pendingMessages |-> <<StateUpdate("general")>>]]
    /\ webviews = [m \in Modes |-> [phase |-> "none", loads |-> 0]]
    /\ lastState = [m \in Modes |-> [has |-> FALSE, payload |-> <<>>]]
    /\ lastWrite = [scope |-> NoTarget, todos |-> <<>>]
    /\ posted = [m \in Modes |-> <<>>]
    /\ delivered = [m \in Modes |-> <<>>]
    /\ tasks = [i \in 1..MaxTasks |-> Idle]
    /\ now = 1
    /\ active = TRUE
    /\ lastDone = Returned("activate", 0, 1)
    /\ calls = <<>>

storeVars == <<globalState, workspaceState, lastWrite>>
timerVars == <<timers, timeouts, sched>>
hostVars == <<providers, lastState>>
harnessVars == <<posted, delivered, calls>>

\* ------------------------------------------------------------ view life cycle
\* VS Code resolves (or reloads) the view: TodoWebviewProvider.resolveWebviewView
ResolveView(mode) ==
    /\ active
    /\ webviews[mode].loads < MaxLoads
    /\ providers' = [providers EXCEPT ![mode] = ResolveWebviewView(@)]
    /\ webviews' = [webviews EXCEPT ![mode] = [phase |-> "loading", loads |-> @.loads + 1]]
    /\ UNCHANGED <<storeVars, undoSnapshots, timerVars, cleanups, config, tasks, now,
                   nextId, active, origin, lastState, harnessVars, lastDone>>

\* the extension's subscriptions are disposed: TodoWebviewHost.dispose, the message
\* subscription, AutoDeleteCoordinator.dispose
Deactivate ==
    /\ active
    /\ active' = FALSE
    /\ providers' = [m \in Modes |-> ProviderDispose(providers[m])]
    /\ LET T == AutoDeleteDispose(AutoDelete)
       IN /\ timers' = T.timers
          /\ timeouts' = T.timeouts
          /\ sched' = T.sched
    /\ UNCHANGED <<storeVars, undoSnapshots, cleanups, webviews, config, tasks, now,
                   nextId, origin, lastState, harnessVars, lastDone>>

\* ------------------------------------------------------------ inbound messages
\* a loaded webview posts 'webviewReady' once: handleMessage marks its provider ready,
\* handleWebviewMessage broadcasts the state with the on-init empty-state hints
WebviewReady(mode) ==
    /\ active
    /\ webviews[mode].phase = "loading"
    /\ LET marked == HostHandleMessage(providers, mode, "webviewReady")
           res == Then(marked, HostBroadcast(ProvidersOf(marked), StateUpdate("onInit")))
       IN /\ providers' = ProvidersOf(res)
          /\ lastState' = Received(res)
    /\ webviews' = [webviews EXCEPT ![mode].phase = "running"]
    /\ lastDone' = Returned("webviewReady", 0, 1)
    /\ UNCHANGED <<storeVars, undoSnapshots, timerVars, cleanups, config, tasks, now,
                   nextId, active, origin, harnessVars>>

\* the webview of a mode renders the sections of its own scope from the last state it got
Sections(mode) ==
    IF mode = "global" THEN {GlobalTarget} ELSE {WorkspaceTarget(f) : f \in Folders}

Shown(mode, scope) ==
    IF scope.scope = "global" THEN lastState[mode].payload.global.todos
    ELSE lastState[mode].payload.folders[scope.workspaceFolder].todos

\* scope descriptors a running webview sends; the projects view may send one without folder
ScopesSent(mode) ==
    Sections(mode) \cup (IF mode = "projects" THEN {WorkspaceTarget("")} ELSE {})

\* ids a running webview sends for a scope: the ones it renders there
IdsSent(mode, scope) ==
    IF ~lastState[mode].has THEN {}
    ELSE IF scope \in Sections(mode) THEN Ids(Shown(mode, scope)) ELSE {0}

CanSend(mode) ==
    /\ active
    /\ now <= MaxClock
    /\ webviews[mode].phase = "running"
    /\ lastState[mode].has

Titles == {<<>>, <<" ">>, <<"t", " ">>}

\* mutation: handleWebviewMessage broadcasts although nothing was mutated
NoOpBroadcasts(kind, target) ==
    /\ lastDone' = Returned(kind, 0, 1)
    /\ tasks' = Touch(tasks, target, 0)
    /\ now' = now + 1
    /\ providers' = ProvidersOf(HostBroadcast(providers, StateUpdate("general")))
    /\ lastState' = Received(HostBroadcast(providers, StateUpdate("general")))
    /\ UNCHANGED <<storeVars, undoSnapshots, timerVars, cleanups, webviews,
                   config, nextId, active, origin, harnessVars>>

\* a handler that returns without mutating and without suspending
NoOp(kind, target) ==
    /\ lastDone' = Returned(kind, 0, 0)
    /\ tasks' = Touch(tasks, target, 0)
    /\ now' = now + 1
    /\ UNCHANGED <<storeVars, undoSnapshots, timerVars, cleanups, hostVars, webviews,
                   config, nextId, active, origin, harnessVars>>

\* handleWebviewMessage -> handleWebviewMutation -> handleWebviewCreate, up to the await
CommitCreate(mode, scope, title) ==
    /\ CanSend(mode)
    /\ LET target == ScopeFromWebviewScope(scope)
           trimmed == Trim(title)
       IN IF target = NoTarget \/ Len(trimmed) = 0
          THEN NoOp("commitCreate", target)
          ELSE LET todo == CreateTodo(trimmed, target)
                   todos == Append(ReadTodos(target), todo)
                   saved == PersistTodos(target, todos)
               IN /\ FreeSlots # {}
                  /\ globalState' = saved.g
                  /\ workspaceState' = saved.w
                  /\ lastWrite' = saved.written
                  /\ nextId' = nextId + 1
                  /\ origin' = Append(origin, target)
                  /\ tasks' = Suspend(Touch(tasks, target, 0),
                                      [Idle EXCEPT !.pc = "broadcast", !.kind = "commitCreate",
                                                   !.scope = target, !.todoId = todo.id,
                                                   !.w = 1])
                  /\ now' = now + 1
                  /\ UNCHANGED <<undoSnapshots, timerVars, cleanups, hostVars, webviews,
                                 config, active, harnessVars, lastDone>>

\* handleWebviewEdit, up to the await
CommitEdit(mode, scope, todoId, title) ==
    /\ CanSend(mode)
    /\ LET target == ScopeFromWebviewScope(scope)
           trimmed == Trim(title)
           todos == ReadTodos(target)
       IN IF target = NoTarget \/ Len(trimmed) = 0 \/ todoId \notin Ids(todos)
          THEN NoOp("commitEdit", target)
          ELSE LET edited == [i \in DOMAIN todos |->
                                IF todos[i].id = todoId
                                THEN [todos[i] EXCEPT !.title = trimmed, !.updatedAt = now]
                                ELSE todos[i]]
                   saved == PersistTodos(target, edited)
               IN /\ FreeSlots # {}
                  /\ globalState' = saved.g
                  /\ workspaceState' = saved.w
                  /\ lastWrite' = saved.written
                  /\ tasks' = Suspend(Touch(tasks, target, 0),
                                      [Idle EXCEPT !.pc = "broadcast", !.kind = "commitEdit",
                                                   !.scope = target, !.todoId = todoId,
                                                   !.w = 1])
                  /\ now' = now + 1
                  /\ UNCHANGED <<undoSnapshots, timerVars, cleanups, hostVars, webviews,
                                 config, nextId, active, origin, harnessVars, lastDone>>

\* handleWebviewToggle, up to the await; schedule / cancel follow in ToggleResumed
ToggleComplete(mode, scope, todoId) ==
    /\ CanSend(mode)
    /\ LET target == ScopeFromWebviewScope(scope)
           todos == ReadTodos(target)
       IN IF target = NoTarget \/ todoId \notin Ids(todos)
          THEN NoOp("toggleComplete", target)
          ELSE LET toggled == [i \in DOMAIN todos |->
                                 IF todos[i].id = todoId
                                 THEN [todos[i] EXCEPT !.completed = ~@, !.updatedAt = now]
                                 ELSE todos[i]]
                   todo == CHOOSE t \in Range(toggled) : t.id = todoId
                   saved == PersistTodos(target, toggled)
               IN /\ FreeSlots # {}
                  /\ globalState' = saved.g
                  /\ workspaceState' = saved.w
                  /\ lastWrite' = saved.written
                  /\ tasks' = Suspend(Touch(tasks, target, 0),
                                      [Idle EXCEPT !.pc = "toggled", !.kind = "toggleComplete",
                                                   !.scope = target, !.todoId = todoId,
                                                   !.completed = todo.completed, !.w = 1])
                  /\ sched' = IF todo.completed THEN sched
                              ELSE Reopened(sched, target, todoId)
                  /\ now' = now + 1
                  /\ UNCHANGED <<undoSnapshots, timers, timeouts, cleanups, hostVars,
                                 webviews, config, nextId, active, origin, harnessVars,
                                 lastDone>>

\* handleWebviewReorder, up to the await
ReorderTodos(mode, scope, order) ==
    /\ CanSend(mode)
    /\ LET target == ScopeFromWebviewScope(scope)
           todos == ReadTodos(target)
           reordered == ReorderTodosByOrder(todos, order)
       IN IF target = NoTarget \/ Len(todos) <= 1 \/ ~reordered.changed
          THEN NoOp("reorderTodos", target)
          ELSE LET saved == PersistTodos(target, reordered.todos)
               IN /\ FreeSlots # {}
                  /\ globalState' = saved.g
                  /\ workspaceState' = saved.w
                  /\ lastWrite' = saved.written
                  /\ tasks' = Suspend(Touch(tasks, target, 0),
                                      [Idle EXCEPT !.pc = "broadcast", !.kind = "reorderTodos",
                                                   !.scope = target, !.w = 1])
                  /\ now' = now + 1
                  /\ UNCHANGED <<undoSnapshots, timerVars, cleanups, hostVars, webviews,
                                 config, nextId, active, origin, harnessVars, lastDone>>

Without(todos, todoId) == SelectSeqBy(todos, Ids(todos) \ {todoId})

\* handleWebviewRemoveWithUndo -> removeTodoWithUndo, up to the first await
RemoveTodo(mode, scope, todoId) ==
    /\ CanSend(mode)
    /\ LET target == ScopeFromWebviewScope(scope)
           todos == ReadTodos(target)
       IN IF target = NoTarget \/ todoId \notin Ids(todos)
          THEN NoOp("removeTodo", target)
          ELSE LET T == Cancel(AutoDelete, target, todoId)
                   saved == OpsPersistTodos(target, Without(todos, todoId))
               IN /\ FreeSlots # {}
                  /\ timers' = T.timers
                  /\ timeouts' = T.timeouts
                  /\ sched' = T.sched
                  /\ undoSnapshots' = CaptureSnapshot(ScopeKey(target), todos)
                  /\ globalState' = saved.g
                  /\ workspaceState' = saved.w
                  /\ lastWrite' = saved.written
                  /\ tasks' = Suspend(Touch(tasks, target, 0),
                                      [Idle EXCEPT !.pc = "removed", !.kind = "removeTodo",
                                                   !.scope = target, !.todoId = todoId,
                                                   !.todos = todos, !.w = 1])
                  /\ now' = now + 1
                  /\ UNCHANGED <<cleanups, hostVars, webviews, config, nextId, active,
                                 origin, harnessVars, lastDone>>

\* mutation: the dialog is shown for a single todo as well
NeedsConfirmationAny(todos) == config.confirmDestructiveActions /\ Len(todos) > 0

\* clearScope: confirmSetting && todos.length > 1
NeedsConfirmation(todos) == config.confirmDestructiveActions /\ Len(todos) > 1

\* handleWebviewMessage -> clearScope, up to the first await (the confirmation dialog, or
\* the save when no confirmation is required)
ClearScope(mode, scope) ==
    /\ CanSend(mode)
    /\ LET target == ScopeFromWebviewScope(scope)
           todos == ReadTodos(target)
       IN IF target = NoTarget \/ Len(todos) = 0
          THEN NoOp("clearScope", target)
          ELSE LET T == CancelScope(AutoDelete, target, todos)
                   saved == OpsPersistTodos(target, <<>>)
                   task == [Idle EXCEPT !.kind = "clearScope", !.scope = target,
                                        !.todos = todos]
               IN /\ FreeSlots # {}
                  /\ timers' = T.timers
                  /\ timeouts' = T.timeouts
                  /\ sched' = T.sched
                  /\ now' = now + 1
                  /\ IF NeedsConfirmation(todos)
                     THEN /\ tasks' = Suspend(Touch(tasks, target, 0),
                                              [task EXCEPT !.pc = "confirm"])
                          /\ UNCHANGED <<storeVars, undoSnapshots>>
                     ELSE /\ undoSnapshots' = CaptureSnapshot(ScopeKey(target), todos)
                          /\ globalState' = saved.g
                          /\ workspaceState' = saved.w
                          /\ lastWrite' = saved.written
                          /\ tasks' = Suspend(Touch(tasks, target, 0),
                                              [task EXCEPT !.pc = "removed", !.w = 1])
                  /\ UNCHANGED <<cleanups, hostVars, webviews, config, nextId, active,
                                 origin, harnessVars, lastDone>>

\* handleWebviewMessage -> handleWebviewMutation with a message type none of the cases
\* names: the default branch reports that nothing was mutated
UnknownMessage(mode) ==
    /\ CanSend(mode)
    /\ NoOp("unknown", NoTarget)

\* --------------------------------------------------------------- continuations
\* broadcastWebviewState
BroadcastWebviewState == HostBroadcast(providers, StateUpdate("general"))

\* the handler resumes after `await persistTodos`, broadcasts the state and returns
Broadcast(slot) ==
    /\ tasks[slot].pc = "broadcast"
    /\ providers' = ProvidersOf(BroadcastWebviewState)
    /\ lastState' = Received(BroadcastWebviewState)
    /\ lastDone' = Returned(tasks[slot].kind, tasks[slot].w, tasks[slot].b + 1)
    /\ tasks' = [tasks EXCEPT ![slot] = Idle]
    /\ UNCHANGED <<storeVars, undoSnapshots, timerVars, cleanups, webviews, config, now,
                   nextId, active, origin, harnessVars>>

\* handleWebviewToggle resumes after `await persistTodos`: schedule or cancel by the flag it
\* wrote, then handleWebviewMessage broadcasts
ToggleResumed(slot) ==
    /\ tasks[slot].pc = "toggled"
    /\ LET t == tasks[slot]
           T == IF t.completed THEN Schedule(AutoDelete, t.scope, t.todoId, config)
                ELSE Cancel(AutoDelete, t.scope, t.todoId)
       IN /\ timers' = T.timers
          /\ timeouts' = T.timeouts
          /\ sched' = T.sched
    /\ providers' = ProvidersOf(BroadcastWebviewState)
    /\ lastState' = Received(BroadcastWebviewState)
    /\ lastDone' = Returned(tasks[slot].kind, tasks[slot].w, tasks[slot].b + 1)
    /\ tasks' = [tasks EXCEPT ![slot] = Idle]
    /\ UNCHANGED <<storeVars, undoSnapshots, cleanups, webviews, config, now,
                   nextId, active, origin, harnessVars>>

\* removeTodoWithUndo / clearScope resume after the save: broadcast, then show the undo toast
RemovedResumed(slot) ==
    /\ tasks[slot].pc = "removed"
    /\ providers' = ProvidersOf(BroadcastWebviewState)
    /\ lastState' = Received(BroadcastWebviewState)
    /\ tasks' = [tasks EXCEPT ![slot].pc = "undoOffer", ![slot].b = @ + 1]
    /\ UNCHANGED <<storeVars, undoSnapshots, timerVars, cleanups, webviews, config, now,
                   nextId, active, origin, harnessVars, lastDone>>

\* the user picks Undo: consume the snapshot and, if there is one, save it
UndoAccept(slot) ==
    /\ tasks[slot].pc = "undoOffer"
    /\ LET t == tasks[slot]
           scopeKey == ScopeKey(t.scope)
       IN /\ undoSnapshots' = ConsumeSnapshot(scopeKey)
          /\ IF HasSnapshot(scopeKey)
             THEN LET saved == OpsPersistTodos(t.scope, undoSnapshots[scopeKey])
                  IN /\ globalState' = saved.g
                     /\ workspaceState' = saved.w
                     /\ lastWrite' = saved.written
                     /\ tasks' = [Touch(tasks, t.scope, slot) EXCEPT
                                     ![slot].pc = "broadcast", ![slot].w = @ + 1]
                     /\ UNCHANGED lastDone
             ELSE /\ lastDone' = Returned(t.kind, t.w, t.b)
                  /\ tasks' = [Touch(tasks, t.scope, slot) EXCEPT ![slot] = Idle]
                  /\ UNCHANGED storeVars
    /\ UNCHANGED <<timerVars, cleanups, hostVars, webviews, config, now, nextId, active,
                   origin, harnessVars>>

\* the toast is dismissed or times out: setTimeout(consumeSnapshot, UNDO_SNAPSHOT_TTL_MS)
UndoDecline(slot) ==
    /\ tasks[slot].pc = "undoOffer"
    /\ cleanups' = [cleanups EXCEPT ![ScopeKey(tasks[slot].scope)] = @ + 1]
    /\ lastDone' = Returned(tasks[slot].kind, tasks[slot].w, tasks[slot].b)
    /\ tasks' = [tasks EXCEPT ![slot] = Idle]
    /\ UNCHANGED <<storeVars, undoSnapshots, timerVars, hostVars, webviews, config, now,
                   nextId, active, origin, harnessVars>>

\* the user confirms the clear: snapshot the todos read before the dialog, save the empty list
ConfirmAccept(slot) ==
    /\ tasks[slot].pc = "confirm"
    /\ LET t == tasks[slot]
           saved == OpsPersistTodos(t.scope, <<>>)
       IN /\ undoSnapshots' = CaptureSnapshot(ScopeKey(t.scope), t.todos)
          /\ globalState' = saved.g
          /\ workspaceState' = saved.w
          /\ lastWrite' = saved.written
          /\ tasks' = [Touch(tasks, t.scope, slot) EXCEPT
                          ![slot].pc = "removed", ![slot].w = @ + 1]
    /\ UNCHANGED <<timerVars, cleanups, hostVars, webviews, config, now, nextId, active,
                   origin, harnessVars, lastDone>>

\* the user dismisses the confirmation dialog
ConfirmDecline(slot) ==
    /\ tasks[slot].pc = "confirm"
    /\ lastDone' = Returned(tasks[slot].kind, tasks[slot].w, tasks[slot].b)
    /\ tasks' = [tasks EXCEPT ![slot] = Idle]
    /\ UNCHANGED <<storeVars, undoSnapshots, timerVars, cleanups, hostVars, webviews,
                   config, now, nextId, active, origin, harnessVars>>

\* ---------------------------------------------------------------------- timers
\* the delay timer of schedule n expires: arm the removal timer, send the fade cue
DelayFires(n) ==
    /\ <<n, "delay">> \in timeouts
    /\ LET T == DelayExpired(AutoDelete, n)
           res == HostPostMessage(providers, ScopeToProviderMode(sched[n].scope),
                                  AutoDeleteCue(sched[n].scope, sched[n].todoId))
       IN /\ timers' = T.timers
          /\ timeouts' = T.timeouts
          /\ sched' = T.sched
          /\ providers' = ProvidersOf(res)
          /\ lastState' = Received(res)
    /\ UNCHANGED <<storeVars, undoSnapshots, cleanups, webviews, config, tasks, now,
                   nextId, active, origin, harnessVars, lastDone>>

\* mutation: the removal timer's callback takes the path of removeTodoWithUndo
FadeFiresWithUndo(n) ==
    /\ <<n, "fade">> \in timeouts
    /\ LET T == FadeExpired(AutoDelete, n)
           scope == sched[n].scope
           todos == ReadTodos(scope)
           next == Without(todos, sched[n].todoId)
           saved == OpsPersistTodos(scope, next)
       IN /\ timers' = T.timers
          /\ timeouts' = T.timeouts
          /\ sched' = T.sched
          /\ IF Len(next) = Len(todos)
             THEN /\ lastDone' = Returned("autoDelete", 0, 0)
                  /\ tasks' = Touch(tasks, scope, 0)
                  /\ UNCHANGED <<storeVars, undoSnapshots>>
             ELSE /\ FreeSlots # {}
                  /\ undoSnapshots' = CaptureSnapshot(ScopeKey(scope), todos)
                  /\ globalState' = saved.g
                  /\ workspaceState' = saved.w
                  /\ lastWrite' = saved.written
                  /\ tasks' = Suspend(Touch(tasks, scope, 0),
                                      [Idle EXCEPT !.pc = "removed", !.kind = "autoDelete",
                                                   !.scope = scope,
                                                   !.todoId = sched[n].todoId,
                                                   !.todos = todos, !.w = 1])
                  /\ UNCHANGED lastDone
    /\ UNCHANGED <<cleanups, hostVars, webviews, config, now, nextId,
                   active, origin, harnessVars>>

\* the removal timer of schedule n expires: free the slot, removeTodoWithoutUndo up to its await
FadeFires(n) ==
    /\ <<n, "fade">> \in timeouts
    /\ LET T == FadeExpired(AutoDelete, n)
           scope == sched[n].scope
           todos == ReadTodos(scope)
           next == Without(todos, sched[n].todoId)
           saved == OpsPersistTodos(scope, next)
       IN /\ timers' = T.timers
          /\ timeouts' = T.timeouts
          /\ sched' = T.sched
          /\ IF Len(next) = Len(todos)
             THEN /\ lastDone' = Returned("autoDelete", 0, 0)
                  /\ tasks' = Touch(tasks, scope, 0)
                  /\ UNCHANGED storeVars
             ELSE /\ FreeSlots # {}
                  /\ globalState' = saved.g
                  /\ workspaceState' = saved.w
                  /\ lastWrite' = saved.written
                  /\ tasks' = Suspend(Touch(tasks, scope, 0),
                                      [Idle EXCEPT !.pc = "broadcast", !.kind = "autoDelete",
                                                   !.scope = scope,
                                                   !.todoId = sched[n].todoId, !.w = 1])
                  /\ UNCHANGED lastDone
    /\ UNCHANGED <<undoSnapshots, cleanups, hostVars, webviews, config, now, nextId,
                   active, origin, harnessVars>>

\* a snapshot TTL timer expires: consumeSnapshot(scopeKey), result dropped
CleanupFires(scopeKey) ==
    /\ cleanups[scopeKey] > 0
    /\ cleanups' = [cleanups EXCEPT ![scopeKey] = @ - 1]
    /\ undoSnapshots' = ConsumeSnapshot(scopeKey)
    /\ UNCHANGED <<storeVars, timerVars, hostVars, webviews, config, tasks, now, nextId,
                   active, origin, harnessVars, lastDone>>

\* ------------------------------------------------------------------------ Next
RECURSIVE Perms(_)
\* the orders a drag can produce from the rendered ids
Perms(S) ==
    IF S = {} THEN {<<>>}
    ELSE UNION {{<<x>> \o p : p \in Perms(S \ {x})} : x \in S}

Slots == 1..MaxTasks

Next ==
    \/ \E mode \in Modes : ResolveView(mode)
    \/ Deactivate
    \/ \E mode \in Modes : WebviewReady(mode)
    \/ \E mode \in Modes : \E scope \in ScopesSent(mode) : \E title \in Titles :
          CommitCreate(mode, scope, title)
    \/ \E mode \in Modes : \E scope \in ScopesSent(mode) :
          \E todoId \in IdsSent(mode, scope) : \E title \in Titles :
             CommitEdit(mode, scope, todoId, title)
    \/ \E mode \in Modes : \E scope \in ScopesSent(mode) :
          \E todoId \in IdsSent(mode, scope) : ToggleComplete(mode, scope, todoId)
    \/ \E mode \in Modes : \E scope \in ScopesSent(mode) :
          \E todoId \in IdsSent(mode, scope) : RemoveTodo(mode, scope, todoId)
    \/ \E mode \in Modes : \E scope \in ScopesSent(mode) :
          \E order \in Perms(IdsSent(mode, scope)) : ReorderTodos(mode, scope, order)
    \/ \E mode \in Modes : \E scope \in ScopesSent(mode) : ClearScope(mode, scope)
    \/ \E mode \in Modes : UnknownMessage(mode)
    \/ \E slot \in Slots : Broadcast(slot)
    \/ \E slot \in Slots : ToggleResumed(slot)
    \/ \E slot \in Slots : RemovedResumed(slot)
    \/ \E slot \in Slots : UndoAccept(slot)
    \/ \E slot \in Slots : UndoDecline(slot)
    \/ \E slot \in Slots : ConfirmAccept(slot)
    \/ \E slot \in Slots : ConfirmDecline(slot)
    \/ \E n \in DOMAIN sched : DelayFires(n)
    \/ \E n \in DOMAIN sched : FadeFires(n)
    \/ \E scopeKey \in ScopeKeys : CleanupFires(scopeKey)

Spec == Init /\ [][Next]_vars

\* The same program with its scheduling. The event loop runs what is due: a timer that is
\* armed fires, a handler whose awaited save resolved resumes, a dialog or toast is answered
\* or times out. Nothing makes the user send a message or VS Code resolve a view.
TimersFire ==
    /\ WF_vars(\E n \in DOMAIN sched : DelayFires(n))
    /\ WF_vars(\E n \in DOMAIN sched : FadeFires(n))

\* a suspended handler takes its next step: it resumes after its save, or its dialog or
\* toast is answered
Resume ==
    \E slot \in Slots :
        \/ Broadcast(slot) \/ ToggleResumed(slot) \/ RemovedResumed(slot)
        \/ ConfirmAccept(slot) \/ ConfirmDecline(slot)
        \/ UndoAccept(slot) \/ UndoDecline(slot)

\* Resume is enabled exactly when some handler is suspended: every pc other than "idle" has
\* one of the continuations above, and none of them has a further guard
Suspended == \E slot \in Slots : tasks[slot].pc # "idle"

\* weak fairness of Resume, with its enabling condition written out
HandlersResume == []<>(~Suspended) \/ []<><<Resume>>_vars

SpecLive == Init /\ [][Next]_vars /\ TimersFire /\ HandlersResume

\* ------------------------------------------------------------- host harness
\* TodoWebviewHost and its two providers on their own: the callers post numbered messages,
\* VS Code resolves the views, the webviews report ready, the host is disposed.
\* nextId numbers the messages; posted and delivered record, per mode, what was handed to
\* the provider and what the provider handed to webview.postMessage.
HostMessage(n) == [type |-> "stateUpdate", seq |-> n]

\* the objects of activate() right after construction, nothing called yet
Constructed ==
    /\ providers = [m \in Modes |->
                      [webviewView |-> FALSE, ready |-> FALSE, pendingMessages |-> <<>>]]
    /\ webviews = [m \in Modes |-> [phase |-> "none", loads |-> 0]]
    /\ posted = [m \in Modes |-> <<>>]
    /\ delivered = [m \in Modes |-> <<>>]
    /\ active = TRUE
    /\ lastWrite = [scope |-> NoTarget, todos |-> <<>>]
    /\ config = [confirmDestructiveActions |-> TRUE, autoDeleteCompleted |-> TRUE]
    /\ undoSnapshots = <<>>
    /\ timers = <<>>
    /\ timeouts = {}
    /\ cleanups = [k \in ScopeKeys |-> 0]
    /\ sched = <<>>
    /\ lastState = [m \in Modes |-> [has |-> FALSE, payload |-> <<>>]]
    /\ tasks = [i \in 1..MaxTasks |-> Idle]
    /\ now = 1
    /\ lastDone = Returned("activate", 0, 0)

\* the mementos as a seed left them
Stored(seed) ==
    /\ globalState = seed.g
    /\ workspaceState = seed.w
    /\ origin = seed.origin
    /\ nextId = Len(seed.origin) + 1

\* everything constructed over empty mementos
Fresh ==
    /\ Constructed
    /\ Stored([g |-> [present |-> FALSE, version |-> 0, todos |-> <<>>],
               w |-> [present |-> FALSE, version |-> 0, folders |-> <<>>],
               origin |-> <<>>])

InitHost == Fresh /\ calls = <<>>

restVars == <<storeVars, undoSnapshots, timerVars, cleanups, config, tasks, now, origin,
              lastState, lastDone, calls>>

\* the outputs of a host call reach the webviews
Deliver(res) == [m \in Modes |-> delivered[m] \o res[m].out]

\* how often one view of the harness is resolved: once, and again after a reload
MaxHostLoads == 2

\* resolveWebviewView
HostResolveView(mode) ==
    /\ active
    /\ webviews[mode].loads < MaxHostLoads
    /\ providers' = [providers EXCEPT ![mode] = ResolveWebviewView(@)]
    /\ webviews' = [webviews EXCEPT ![mode] = [phase |-> "loading", loads |-> @.loads + 1]]
    /\ UNCHANGED <<restVars, posted, delivered, nextId, active>>

\* handleMessage with a 'webviewReady' message
HostWebviewReady(mode) ==
    /\ active
    /\ webviews[mode].phase = "loading"
    /\ LET res == HostHandleMessage(providers, mode, "webviewReady")
       IN /\ providers' = ProvidersOf(res)
          /\ delivered' = Deliver(res)
    /\ webviews' = [webviews EXCEPT ![mode].phase = "running"]
    /\ UNCHANGED <<restVars, posted, nextId, active>>

\* TodoWebviewHost.postMessage(mode, message)
HostPost(mode) ==
    /\ nextId <= MaxPosts
    /\ LET res == HostPostMessage(providers, mode, HostMessage(nextId))
       IN /\ providers' = ProvidersOf(res)
          /\ delivered' = Deliver(res)
    /\ posted' = [posted EXCEPT ![mode] = Append(@, HostMessage(nextId))]
    /\ nextId' = nextId + 1
    /\ UNCHANGED <<restVars, webviews, active>>

\* TodoWebviewHost.broadcast(message)
HostBroadcastAll ==
    /\ nextId <= MaxPosts
    /\ LET res == HostBroadcast(providers, HostMessage(nextId))
       IN /\ providers' = ProvidersOf(res)
          /\ delivered' = Deliver(res)
    /\ posted' = [m \in Modes |-> Append(posted[m], HostMessage(nextId))]
    /\ nextId' = nextId + 1
    /\ UNCHANGED <<restVars, webviews, active>>

\* TodoWebviewHost.dispose
HostDispose ==
    /\ active
    /\ active' = FALSE
    /\ providers' = [m \in Modes |-> ProviderDispose(providers[m])]
    /\ UNCHANGED <<restVars, webviews, posted, delivered, nextId>>

NextHost ==
    \/ \E mode \in Modes : HostResolveView(mode)
    \/ \E mode \in Modes : HostWebviewReady(mode)
    \/ \E mode \in Modes : HostPost(mode)
    \/ HostBroadcastAll
    \/ HostDispose

SpecHost == InitHost /\ [][NextHost]_vars

\* ------------------------------------------------------- snapshot harness
\* TodoRepository's undo cache on its own, driven as the repository tests drive it:
\* captureSnapshot and consumeSnapshot in any order, on any scope key.
MaxCalls == 4

SnapshotInputs ==
    { <<ToTodo("global", "", Seed(1, <<"a">>, FALSE, 1))>>,
      <<ToTodo("global", "", Seed(1, <<"a">>, FALSE, 1)),
        ToTodo("global", "", Seed(2, <<"b">>, TRUE, 2))>> }

\* a fresh repository over empty mementos
InitSnap == InitHost

snapRest == <<storeVars, timerVars, cleanups, hostVars, webviews, config, tasks, now,
              nextId, active, origin, posted, delivered, lastDone>>

\* repository.captureSnapshot(scopeKey, todos)
SnapCapture(scopeKey, todos) ==
    /\ Len(calls) < MaxCalls
    /\ undoSnapshots' = CaptureSnapshot(scopeKey, todos)
    /\ calls' = Append(calls, [op |-> "captureSnapshot", key |-> scopeKey,
                               todos |-> todos, result |-> SnapshotOf(scopeKey)])
    /\ UNCHANGED snapRest

\* repository.consumeSnapshot(scopeKey)
SnapConsume(scopeKey) ==
    /\ Len(calls) < MaxCalls
    /\ undoSnapshots' = ConsumeSnapshot(scopeKey)
    /\ calls' = Append(calls, [op |-> "consumeSnapshot", key |-> scopeKey,
                               todos |-> <<>>, result |-> SnapshotOf(scopeKey)])
    /\ UNCHANGED snapRest

NextSnap ==
    \/ \E scopeKey \in ScopeKeys : \E todos \in SnapshotInputs : SnapCapture(scopeKey, todos)
    \/ \E scopeKey \in ScopeKeys : SnapConsume(scopeKey)

SpecSnap == InitSnap /\ [][NextSnap]_vars

\* ------------------------------------------------------- reorder harness
\* reorderTodosByOrder on its own: the array read from a bucket and the id order of a
\* reorderTodos message are drawn at the start, the function is applied once.
MaxItems == 3
MaxOrder == 3

\* a stored bucket of n todos: array order and positions agree
ReorderBucket(n) == [i \in 1..n |-> ToTodo("global", "", Seed(i, <<"t">>, FALSE, i))]

RECURSIVE SeqsUpTo(_, _)
\* the sequences over S of length at most n
SeqsUpTo(S, n) ==
    IF n = 0 THEN {<<>>}
    ELSE SeqsUpTo(S, n - 1) \cup {Append(q, x) : q \in SeqsUpTo(S, n - 1), x \in S}

\* id orders a message can carry: known ids, the unknown id 0, repeats, omissions
ReorderOrders == SeqsUpTo(0..MaxItems, MaxOrder)

InitReorder ==
    /\ Fresh
    /\ \E n \in 0..MaxItems : \E order \in ReorderOrders :
          calls = <<[op |-> "reorderTodosByOrder", todos |-> ReorderBucket(n),
                     order |-> order, returned |-> FALSE, result |-> <<>>,
                     changed |-> FALSE]>>

\* reorderTodosByOrder(todos, order)
ReorderApply ==
    /\ ~calls[1].returned
    /\ LET reordered == ReorderTodosByOrder(calls[1].todos, calls[1].order)
       IN calls' = <<[calls[1] EXCEPT !.returned = TRUE, !.result = reordered.todos,
                                     !.changed = reordered.changed]>>
    /\ UNCHANGED <<snapRest, undoSnapshots>>

NextReorder == ReorderApply

SpecReorder == InitReorder /\ [][NextReorder]_vars

\* ------------------------------------------------------- createTodo harness
\* TodoRepository.createTodo on its own: the stored buckets and the input of the call are
\* drawn at the start, the function is applied once.
CreateInputs ==
    [title : Titles, scope : {"global", "workspace"}, workspaceFolder : Folders \cup {""},
     position : {0, 5}]

InitCreate ==
    /\ Constructed
    /\ \E seed \in SeedStores : Stored(seed)
    /\ \E input \in CreateInputs :
          calls = <<[op |-> "createTodo", input |-> input, returned |-> FALSE,
                     threw |-> FALSE, result |-> <<>>]>>

\* repository.createTodo(input)
CreateApply ==
    /\ ~calls[1].returned
    /\ LET res == CreateTodoCall(calls[1].input)
       IN calls' = <<[calls[1] EXCEPT !.returned = TRUE, !.threw = res.threw,
                                     !.result = res.result]>>
    /\ nextId' = IF CreateTodoCall(calls[1].input).threw THEN nextId ELSE nextId + 1
    /\ UNCHANGED <<storeVars, undoSnapshots, timerVars, cleanups, hostVars, webviews, config,
                   tasks, now, active, origin, posted, delivered, lastDone>>

NextCreate == CreateApply

SpecCreate == InitCreate /\ [][NextCreate]_vars

\* ------------------------------------------------------- coordinator harness
\* AutoDeleteCoordinator on its own, with handlers that may throw: schedule (with the
\* configuration read at the call), cancel and dispose in any order, the runtime fires
\* the live timers.
MaxAutoCalls == 3

AutoItems == {[scope |-> GlobalTarget, todoId |-> 1],
              [scope |-> WorkspaceTarget("P1"), todoId |-> 1]}

AutoConfigs == {c \in Configs : c.confirmDestructiveActions}

AutoCall(op, key, n, enabled, outcome, settled) ==
    [op |-> op, key |-> key, n |-> n, enabled |-> enabled, outcome |-> outcome,
     settled |-> settled]

\* the calls made from outside so far (the timer callbacks are not counted)
AutoCallsMade ==
    Cardinality({i \in DOMAIN calls : calls[i].op \in {"schedule", "cancel", "dispose"}})

InitAuto == Fresh /\ calls = <<>>

autoRest == <<storeVars, undoSnapshots, cleanups, hostVars, webviews, config, tasks, now,
              nextId, active, origin, posted, delivered, lastDone>>

\* autoDelete.schedule(context, scope, todoId, configuration)
AutoSchedule(item, configuration) ==
    /\ AutoCallsMade < MaxAutoCalls
    /\ LET T == Schedule(AutoDelete, item.scope, item.todoId, configuration)
       IN /\ timers' = T.timers
          /\ timeouts' = T.timeouts
          /\ sched' = T.sched
          /\ calls' = Append(calls,
                 AutoCall("schedule", BuildKey(item.scope, item.todoId),
                          IF configuration.autoDeleteCompleted THEN Len(T.sched) ELSE 0,
                          configuration.autoDeleteCompleted, "returns", "fulfilled"))
    /\ UNCHANGED autoRest

\* autoDelete.cancel(scope, todoId)
AutoCancel(item) ==
    /\ AutoCallsMade < MaxAutoCalls
    /\ LET T == Cancel(AutoDelete, item.scope, item.todoId)
       IN /\ timers' = T.timers
          /\ timeouts' = T.timeouts
          /\ sched' = T.sched
    /\ calls' = Append(calls, AutoCall("cancel", BuildKey(item.scope, item.todoId), 0,
                                       FALSE, "returns", "fulfilled"))
    /\ UNCHANGED autoRest

\* autoDelete.dispose()
AutoDisposeAll ==
    /\ AutoCallsMade < MaxAutoCalls
    /\ LET T == AutoDeleteDispose(AutoDelete)
       IN /\ timers' = T.timers
          /\ timeouts' = T.timeouts
          /\ sched' = T.sched
    /\ calls' = Append(calls, AutoCall("dispose", <<"", 0>>, 0, FALSE, "returns",
                                       "fulfilled"))
    /\ UNCHANGED autoRest

\* the delay timer of schedule n expires; sendCue returns or throws
AutoDelayFires(n, outcome) ==
    /\ <<n, "delay">> \in timeouts
    /\ LET res == DelayCallback(AutoDelete, n, outcome)
       IN /\ timers' = res.T.timers
          /\ timeouts' = res.T.timeouts
          /\ sched' = res.T.sched
          /\ calls' = Append(calls,
                 AutoCall("sendCue", BuildKey(sched[n].scope, sched[n].todoId), n, TRUE,
                          outcome, res.settled))
    /\ UNCHANGED autoRest

\* the removal timer of schedule n expires; removeTodo resolves or throws
AutoFadeFires(n, outcome) ==
    /\ <<n, "fade">> \in timeouts
    /\ LET res == RemovalCallback(AutoDelete, n, outcome)
       IN /\ timers' = res.T.timers
          /\ timeouts' = res.T.timeouts
          /\ sched' = res.T.sched
          /\ calls' = Append(calls,
                 AutoCall("removeTodo", BuildKey(sched[n].scope, sched[n].todoId), n, TRUE,
                          outcome, res.settled))
    /\ UNCHANGED autoRest

NextAuto ==
    \/ \E item \in AutoItems : \E configuration \in AutoConfigs :
          AutoSchedule(item, configuration)
    \/ \E item \in AutoItems : AutoCancel(item)
    \/ AutoDisposeAll
    \/ \E n \in DOMAIN sched : \E outcome \in CallbackOutcomes : AutoDelayFires(n, outcome)
    \/ \E n \in DOMAIN sched : \E outcome \in CallbackOutcomes : AutoFadeFires(n, outcome)

SpecAuto == InitAuto /\ [][NextAuto]_vars

\* ------------------------------------------------------ snapshot builder harness
\* buildWebviewStateSnapshot on its own, over mementos whose buckets need not be stored in
\* position order (saveGlobalTodos and saveWorkspaceTodos write what they are handed), with
\* snapshots captured and timers scheduled in between.
BuildStores ==
    { [g |-> [present |-> TRUE, version |-> SCHEMA_VERSION,
              todos |-> [i \in 1..3 |-> Seed(i, <<"t">>, i = 2, p[i])]],
       w |-> [present |-> TRUE, version |-> SCHEMA_VERSION,
              folders |-> [f \in {"P1"} |-> <<Seed(4, <<"c">>, FALSE, 3),
                                               Seed(5, <<"d">>, FALSE, 1)>>]],
       origin |-> <<GlobalTarget, GlobalTarget, GlobalTarget,
                    WorkspaceTarget("P1"), WorkspaceTarget("P1")>>]
      : p \in Perms({1, 2, 3}) \cup {<<2, 2, 1>>} }

EmptyStateKinds == {"general", "onInit"}

InitBuild ==
    /\ Constructed
    /\ \E seed \in BuildStores : Stored(seed)
    /\ calls = <<>>

\* mutation: the builder sorts the stored array itself
BuildLeavesSorted ==
    [g |-> [globalState EXCEPT !.todos = SortByPosition(@)], w |-> workspaceState]

\* the mementos after the builder ran: sort works on the arrays getGlobalTodos and
\* getWorkspaceTodos made with map, the stored arrays are not touched
BuildLeaves == [g |-> globalState, w |-> workspaceState]

\* buildWebviewStateSnapshot(repository, emptyStateHints)
BuildCall(emptyKind) ==
    /\ Len(calls) < MaxCalls
    /\ calls' = Append(calls, [op |-> "buildWebviewStateSnapshot", key |-> emptyKind,
                               todos |-> <<>>,
                               result |-> BuildWebviewStateSnapshot(emptyKind)])
    /\ globalState' = BuildLeaves.g
    /\ workspaceState' = BuildLeaves.w
    /\ UNCHANGED <<lastWrite, undoSnapshots, timerVars, cleanups, hostVars, webviews, config,
                   tasks, now, nextId, active, origin, posted, delivered, lastDone>>

NextBuild ==
    \/ \E emptyKind \in EmptyStateKinds : BuildCall(emptyKind)
    \/ \E todos \in SnapshotInputs : SnapCapture("global", todos)
    \/ \E item \in AutoItems : AutoSchedule(item, config)

SpecBuild == InitBuild /\ [][NextBuild]_vars

\* ------------------------------------------------------------ command harness
\* The addTodo and editTodo commands of commandRouter.ts over a seeded store: the quick picks
\* are answered or dismissed, and a removal timer may delete an item while an editTodo
\* is suspended. No view is resolved, so the providers buffer what they are handed. tasks holds the
\* commands suspended at an await, calls how each command ended.
MaxCommands == 2

FolderOrder == <<"P1", "P2">>

\* buildTodoQuickPickItems: one target per todo, the global bucket first, then folder by
\* folder, each bucket by position
BuildTodoQuickPickItems ==
    LET picks(scope) ==
            LET sorted == SortByPosition(ReadTodos(scope))
            IN [i \in DOMAIN sorted |-> [todoId |-> sorted[i].id, scope |-> scope]]
    IN picks(GlobalTarget) \o picks(WorkspaceTarget(FolderOrder[1]))
          \o picks(WorkspaceTarget(FolderOrder[2]))

CommandsStarted == Len(calls) + Cardinality({i \in 1..MaxTasks : tasks[i].pc # "idle"})

CommandDone(op, scope, todoId, outcome) ==
    [op |-> op, scope |-> scope, todoId |-> todoId, outcome |-> outcome]

InitCommands ==
    /\ Constructed
    /\ \E seed \in SeedStores : Stored(seed)
    /\ calls = <<>>

commandRest == <<undoSnapshots, timerVars, cleanups, webviews, config, now, nextId, active,
                 origin, lastDone>>

\* addTodo, up to `await showQuickPick` in promptForScope
AddTodo ==
    /\ CommandsStarted < MaxCommands
    /\ tasks' = Suspend(tasks, [Idle EXCEPT !.pc = "pickScope", !.kind = "addTodo"])
    /\ UNCHANGED <<storeVars, hostVars, posted, delivered, calls, commandRest>>

\* editTodo, up to `await showQuickPick` in resolveTodoTarget; without todos it returns
EditTodo ==
    /\ CommandsStarted < MaxCommands
    /\ IF BuildTodoQuickPickItems = <<>>
       THEN /\ calls' = Append(calls, CommandDone("editTodo", NoTarget, 0, "noTodos"))
            /\ UNCHANGED tasks
       ELSE /\ tasks' = Suspend(tasks, [Idle EXCEPT !.pc = "pickTodo", !.kind = "editTodo",
                                                     !.todos = BuildTodoQuickPickItems])
            /\ UNCHANGED calls
    /\ UNCHANGED <<storeVars, hostVars, posted, delivered, commandRest>>

\* the scope pick resolves (NoTarget: dismissed); addTodo goes on to `await focusTodoContainer`
ScopePicked(slot, choice) ==
    /\ tasks[slot].pc = "pickScope"
    /\ IF choice = NoTarget
       THEN /\ tasks' = [tasks EXCEPT ![slot] = Idle]
            /\ calls' = Append(calls, CommandDone("addTodo", NoTarget, 0, "cancelled"))
       ELSE /\ tasks' = [tasks EXCEPT ![slot].pc = "focus", ![slot].scope = choice]
            /\ UNCHANGED calls
    /\ UNCHANGED <<storeVars, hostVars, posted, delivered, commandRest>>

\* the todo pick resolves (0: dismissed); editTodo looks the todo up and goes on to
\* `await focusTodoContainer` if it is still stored
TodoPicked(slot, k) ==
    /\ tasks[slot].pc = "pickTodo"
    /\ k \in 0..Len(tasks[slot].todos)
    /\ IF k = 0
       THEN /\ tasks' = [tasks EXCEPT ![slot] = Idle]
            /\ calls' = Append(calls, CommandDone("editTodo", NoTarget, 0, "cancelled"))
       ELSE LET target == tasks[slot].todos[k]
            IN IF target.todoId \notin Ids(ReadTodos(target.scope))
               THEN /\ tasks' = [tasks EXCEPT ![slot] = Idle]
                    /\ calls' = Append(calls, CommandDone("editTodo", target.scope,
                                                          target.todoId, "missing"))
               ELSE /\ tasks' = [tasks EXCEPT ![slot].pc = "focus",
                                              ![slot].scope = target.scope,
                                              ![slot].todoId = target.todoId,
                                              ![slot].todos = <<>>]
                    /\ UNCHANGED calls
    /\ UNCHANGED <<storeVars, hostVars, posted, delivered, commandRest>>

\* mutation: the inline message goes to the global view whatever the scope
DispatchInlineGlobal(kind, scope, todoId) ==
    [mode |-> "global",
     message |-> IF kind = "addTodo"
                 THEN [type |-> "startInlineCreate", scope |-> scope]
                 ELSE [type |-> "startInlineEdit", scope |-> scope, todoId |-> todoId]]

\* dispatchInlineCreate / dispatchInlineEdit: the provider mode and the message posted
DispatchInline(kind, scope, todoId) ==
    [mode |-> ScopeToProviderMode(scope),
     message |-> IF kind = "addTodo"
                 THEN [type |-> "startInlineCreate", scope |-> scope]
                 ELSE [type |-> "startInlineEdit", scope |-> scope, todoId |-> todoId]]

\* focusTodoContainer resolved: broadcastState(), then dispatchInlineCreate / dispatchInlineEdit
Focused(slot) ==
    /\ tasks[slot].pc = "focus"
    /\ LET t == tasks[slot]
           d == DispatchInline(t.kind, t.scope, t.todoId)
           first == BroadcastWebviewState
           res == Then(first, HostPostMessage(ProvidersOf(first), d.mode, d.message))
       IN /\ providers' = ProvidersOf(res)
          /\ delivered' = Deliver(res)
          /\ lastState' = Received(res)
          /\ posted' = [m \in Modes |->
                           posted[m] \o <<StateUpdate("general")>>
                              \o (IF m = d.mode THEN <<d.message>> ELSE <<>>)]
          /\ calls' = Append(calls, CommandDone(t.kind, t.scope, t.todoId, "dispatched"))
    /\ tasks' = [tasks EXCEPT ![slot] = Idle]
    /\ UNCHANGED <<storeVars, commandRest>>

\* a removal timer deletes a stored todo meanwhile: removeTodoWithoutUndo saves the bucket
\* without it and broadcasts
AutoRemoved(scope, todoId) ==
    /\ \E slot \in 1..MaxTasks : tasks[slot].kind = "editTodo"
    /\ todoId \in Ids(ReadTodos(scope))
    /\ LET saved == OpsPersistTodos(scope, Without(ReadTodos(scope), todoId))
           res == BroadcastWebviewState
       IN /\ globalState' = saved.g
          /\ workspaceState' = saved.w
          /\ lastWrite' = saved.written
          /\ providers' = ProvidersOf(res)
          /\ delivered' = Deliver(res)
          /\ lastState' = Received(res)
          /\ posted' = [m \in Modes |-> Append(posted[m], StateUpdate("general"))]
    /\ UNCHANGED <<tasks, calls, commandRest>>

NextCommands ==
    \/ AddTodo
    \/ EditTodo
    \/ \E slot \in 1..MaxTasks : \E choice \in Targets \cup {NoTarget} : ScopePicked(slot, choice)
    \/ \E slot \in 1..MaxTasks : \E k \in 0..Len(tasks[slot].todos) : TodoPicked(slot, k)
    \/ \E slot \in 1..MaxTasks : Focused(slot)
    \/ \E scope \in Targets : \E todoId \in Ids(ReadTodos(scope)) : AutoRemoved(scope, todoId)

SpecCommands == InitCommands /\ [][NextCommands]_vars

\* ------------------------------------------------------- storage read harness
\* TodoRepository over mementos an earlier or later build of the extension may have left:
\* each memento is absent, or holds an envelope of the previous, the current or the next
\* schema version. The repository's getters and savers are called in any order.
MaxReads == 3

StoredVersions == {SCHEMA_VERSION - 1, SCHEMA_VERSION, SCHEMA_VERSION + 1}

ReadSeeds ==
    { [g |-> [present |-> FALSE, version |-> 0, todos |-> <<>>],
       w |-> [present |-> FALSE, version |-> 0, folders |-> <<>>],
       origin |-> <<>>] }
    \cup
    { [g |-> [present |-> TRUE, version |-> vg,
              todos |-> <<Seed(1, <<"a">>, FALSE, 1), Seed(2, <<"b">>, TRUE, 2)>>],
       w |-> [present |-> TRUE, version |-> vw,
              folders |-> [f \in {"P1"} |-> <<Seed(3, <<"c">>, FALSE, 1)>>]],
       origin |-> <<GlobalTarget, GlobalTarget, WorkspaceTarget("P1")>>]
      : vg \in StoredVersions, vw \in StoredVersions }
    \cup
    { [g |-> [present |-> FALSE, version |-> 0, todos |-> <<>>],
       w |-> [present |-> TRUE, version |-> vw,
              folders |-> [f \in {"P1"} |-> <<Seed(1, <<"c">>, FALSE, 1)>>]],
       origin |-> <<WorkspaceTarget("P1")>>]
      : vw \in StoredVersions }

InitRead ==
    /\ Constructed
    /\ \E seed \in ReadSeeds : Stored(seed)
    /\ calls = <<>>

readRest == <<undoSnapshots, timerVars, cleanups, hostVars, webviews, config, tasks, now,
              active, posted, delivered, lastDone>>

\* repository.getGlobalTodos() / repository.getWorkspaceTodos(folder)
ReadCall(scope) ==
    /\ Len(calls) < MaxReads
    /\ calls' = Append(calls, [op |-> "getTodos", key |-> ScopeKey(scope),
                               todos |-> <<>>, result |-> ReadTodos(scope)])
    /\ UNCHANGED <<storeVars, readRest, nextId, origin>>

\* a caller reads the bucket, pushes a todo made by createTodo and saves the array:
\* repository.saveGlobalTodos(todos) / repository.saveWorkspaceTodos(folder, todos)
SaveCall(scope) ==
    /\ Len(calls) < MaxReads
    /\ LET todos == Append(ReadTodos(scope), CreateTodo(<<"d">>, scope))
       IN /\ IF scope.scope = "global"
             THEN /\ globalState' = SaveGlobalTodos(todos)
                  /\ UNCHANGED workspaceState
             ELSE /\ workspaceState' = SaveWorkspaceTodos(scope.workspaceFolder, todos)
                  /\ UNCHANGED globalState
          /\ lastWrite' = [scope |-> scope, todos |-> todos]
          /\ calls' = Append(calls, [op |-> "saveTodos", key |-> ScopeKey(scope),
                                     todos |-> todos, result |-> <<>>])
    /\ nextId' = nextId + 1
    /\ origin' = Append(origin, scope)
    /\ UNCHANGED readRest

NextRead ==
    \/ \E scope \in Targets : ReadCall(scope)
    \/ \E scope \in Targets : SaveCall(scope)

SpecRead == InitRead /\ [][NextRead]_vars

\* ------------------------------------------------------- normalizePositions harness
\* normalizePositions on its own: an array of todos with any positions (gaps, ties, zero,
\* any array order) is drawn at the start, the function is applied to it and then to
\* its own result.
MaxNormItems == 3
MaxNormPosition == 3
MaxApplications == 2

NormalizeInputs ==
    UNION { { [i \in 1..n |-> ToTodo("global", "", Seed(i, <<"t">>, i = 2, positions[i]))]
              : positions \in [1..n -> 0..MaxNormPosition] }
            : n \in 0..MaxNormItems }

InitNormalize ==
    /\ Fresh
    /\ \E todos \in NormalizeInputs :
          calls = <<[op |-> "normalizePositions", todos |-> todos, applied |-> 0,
                     first |-> <<>>, result |-> todos]>>

\* normalizePositions(todos), then normalizePositions of what it returned
NormalizeApply ==
    /\ calls[1].applied < MaxApplications
    /\ LET normalized == NormalizePositions(calls[1].result)
       IN calls' = <<[calls[1] EXCEPT !.applied = @ + 1, !.result = normalized,
                                     !.first = IF calls[1].applied = 0
                                               THEN normalized ELSE @]>>
    /\ UNCHANGED <<snapRest, undoSnapshots>>

NextNormalize == NormalizeApply

SpecNormalize == InitNormalize /\ [][NextNormalize]_vars

\* ------------------------------------------------------- fade cue harness
\* The handlers activate() passes to the coordinator, with the host's two channels logged:
\* posted and delivered record, per mode, what was handed to the provider and what the
\* provider handed to webview.postMessage. Completed items are scheduled as the toggle
\* handler schedules them, the runtime fires the timers, VS Code resolves and reloads the
\* views, the extension is deactivated.
MaxCueMessages == 4

CueSeed ==
    [g |-> [present |-> TRUE, version |-> SCHEMA_VERSION,
            todos |-> <<Seed(1, <<"a">>, TRUE, 1), Seed(2, <<"b">>, FALSE, 2)>>],
     w |-> [present |-> TRUE, version |-> SCHEMA_VERSION,
            folders |-> [f \in {"P1"} |-> <<Seed(3, <<"c">>, TRUE, 1)>>]],
     origin |-> <<GlobalTarget, GlobalTarget, WorkspaceTarget("P1")>>]

CueItems == {[scope |-> GlobalTarget, todoId |-> 1],
             [scope |-> WorkspaceTarget("P1"), todoId |-> 3]}

\* activate() over the seeded mementos: the first state broadcast is buffered by both providers
InitCue ==
    /\ Stored(CueSeed)
    /\ config = [confirmDestructiveActions |-> TRUE, autoDeleteCompleted |-> TRUE]
    /\ undoSnapshots = <<>>
    /\ timers = <<>>
    /\ timeouts = {}
    /\ cleanups = [k \in ScopeKeys |-> 0]
    /\ sched = <<>>
    /\ providers = [m \in Modes |->
                      [webviewView |-> FALSE, ready |-> FALSE,
                       pendingMessages |-> <<StateUpdate("general")>>]]
    /\ webviews = [m \in Modes |-> [phase |-> "none", loads |-> 0]]
    /\ lastState = [m \in Modes |-> [has |-> FALSE, payload |-> <<>>]]
    /\ lastWrite = [scope |-> NoTarget, todos |-> <<>>]
    /\ posted = [m \in Modes |-> <<StateUpdate("general")>>]
    /\ delivered = [m \in Modes |-> <<>>]
    /\ tasks = [i \in 1..MaxTasks |-> Idle]
    /\ now = 1
    /\ active = TRUE
    /\ lastDone = Returned("activate", 0, 1)
    /\ calls = <<>>

cueRest == <<undoSnapshots, cleanups, config, now, nextId, origin, lastState, calls>>

\* room on the channels a message goes to
CueRoom(modes) == \A m \in modes : Len(posted[m]) < MaxCueMessages

\* handleMessage with 'webviewReady', then handleWebviewMessage broadcasts the state
CueWebviewReady(mode) ==
    /\ active
    /\ webviews[mode].phase = "loading"
    /\ CueRoom(Modes)
    /\ LET marked == HostHandleMessage(providers, mode, "webviewReady")
           res == Then(marked, HostBroadcast(ProvidersOf(marked), StateUpdate("onInit")))
       IN /\ providers' = ProvidersOf(res)
          /\ delivered' = Deliver(res)
    /\ posted' = [m \in Modes |-> Append(posted[m], StateUpdate("onInit"))]
    /\ webviews' = [webviews EXCEPT ![mode].phase = "running"]
    /\ UNCHANGED <<cueRest, storeVars, timerVars, tasks, active, lastDone>>

\* handleWebviewToggle's continuation for a stored completed item: autoDelete.schedule
CueSchedule(item) ==
    /\ active
    /\ \E todo \in Range(ReadTodos(item.scope)) :
          todo.id = item.todoId /\ todo.completed
    /\ BuildKey(item.scope, item.todoId) \notin DOMAIN timers
    /\ LET T == Schedule(AutoDelete, item.scope, item.todoId, config)
       IN /\ timers' = T.timers
          /\ timeouts' = T.timeouts
          /\ sched' = T.sched
    /\ UNCHANGED <<cueRest, storeVars, providers, webviews, posted, delivered, tasks,
                   active, lastDone>>

\* the delay timer of schedule n expires: the removal timer is armed, sendCue posts the cue
CueDelayFires(n) ==
    /\ <<n, "delay">> \in timeouts
    /\ CueRoom({ScopeToProviderMode(sched[n].scope)})
    /\ LET T == DelayExpired(AutoDelete, n)
           mode == ScopeToProviderMode(sched[n].scope)
           cue == AutoDeleteCue(sched[n].scope, sched[n].todoId)
           res == HostPostMessage(providers, mode, cue)
       IN /\ timers' = T.timers
          /\ timeouts' = T.timeouts
          /\ sched' = T.sched
          /\ providers' = ProvidersOf(res)
          /\ delivered' = Deliver(res)
          /\ posted' = [posted EXCEPT ![mode] = Append(@, cue)]
    /\ UNCHANGED <<cueRest, storeVars, webviews, tasks, active, lastDone>>

\* the removal timer of schedule n expires: removeTodoWithoutUndo up to its await
CueFadeFires(n) ==
    /\ <<n, "fade">> \in timeouts
    /\ FreeSlots # {}
    /\ LET T == FadeExpired(AutoDelete, n)
           scope == sched[n].scope
           todos == ReadTodos(scope)
           next == Without(todos, sched[n].todoId)
           saved == OpsPersistTodos(scope, next)
       IN /\ timers' = T.timers
          /\ timeouts' = T.timeouts
          /\ sched' = T.sched
          /\ IF Len(next) = Len(todos)
             THEN UNCHANGED <<storeVars, tasks>>
             ELSE /\ globalState' = saved.g
                  /\ workspaceState' = saved.w
                  /\ lastWrite' = saved.written
                  /\ tasks' = Suspend(tasks,
                                      [Idle EXCEPT !.pc = "broadcast", !.kind = "autoDelete",
                                                   !.scope = scope,
                                                   !.todoId = sched[n].todoId, !.w = 1])
    /\ UNCHANGED <<cueRest, providers, webviews, posted, delivered, active, lastDone>>

\* removeTodoWithoutUndo resumes after the save: broadcastState()
CueRemovedBroadcast(slot) ==
    /\ tasks[slot].pc = "broadcast"
    /\ CueRoom(Modes)
    /\ LET res == HostBroadcast(providers, StateUpdate("general"))
       IN /\ providers' = ProvidersOf(res)
          /\ delivered' = Deliver(res)
    /\ posted' = [m \in Modes |-> Append(posted[m], StateUpdate("general"))]
    /\ lastDone' = Returned(tasks[slot].kind, tasks[slot].w, tasks[slot].b + 1)
    /\ tasks' = [tasks EXCEPT ![slot] = Idle]
    /\ UNCHANGED <<cueRest, storeVars, timerVars, webviews, active>>

\* the subscriptions are disposed: the host with its providers, the coordinator
CueDeactivate ==
    /\ active
    /\ active' = FALSE
    /\ providers' = [m \in Modes |-> ProviderDispose(providers[m])]
    /\ LET T == AutoDeleteDispose(AutoDelete)
       IN /\ timers' = T.timers
          /\ timeouts' = T.timeouts
          /\ sched' = T.sched
    /\ UNCHANGED <<cueRest, storeVars, webviews, posted, delivered, tasks, lastDone>>

NextCue ==
    \/ \E mode \in Modes : HostResolveView(mode)
    \/ \E mode \in Modes : CueWebviewReady(mode)
    \/ \E item \in CueItems : CueSchedule(item)
    \/ \E n \in DOMAIN sched : CueDelayFires(n)
    \/ \E n \in DOMAIN sched : CueFadeFires(n)
    \/ \E slot \in Slots : CueRemovedBroadcast(slot)
    \/ CueDeactivate

SpecCue == InitCue /\ [][NextCue]_vars

\* ====================================================================== claims
\* the entities a memento pair holds for a bucket, read without the repository's accessors
StoredBucket(g, w, scope) ==
    IF scope.scope = "global"
    THEN IF g.present /\ g.version = SCHEMA_VERSION THEN g.todos ELSE <<>>
    ELSE IF w.present /\ w.version = SCHEMA_VERSION /\ scope.workspaceFolder \in DOMAIN w.folders
         THEN w.folders[scope.workspaceFolder] ELSE <<>>

\* the view of a bucket: its stored entities in stored order, tagged with the bucket
Projection(scope) ==
    LET es == StoredBucket(globalState, workspaceState, scope)
    IN [i \in DOMAIN es |->
          [id |-> es[i].id, title |-> es[i].title, completed |-> es[i].completed,
           position |-> es[i].position, createdAt |-> es[i].createdAt,
           updatedAt |-> es[i].updatedAt, scope |-> scope.scope,
           workspaceFolder |-> scope.workspaceFolder]]

\* no handler and no timer callback is suspended at an await
Quiescent == \A i \in Slots : tasks[i].pc = "idle"

ReadyChannel(mode) == providers[mode].webviewView /\ providers[mode].ready

\* C1: in every quiescent state, the last stateUpdate each ready channel received shows
\* exactly the stored buckets: the global bucket and one section per workspace folder, each
\* with the stored items, field by field, in stored order.
C1_DisplayMatchesStore ==
    Quiescent =>
        \A mode \in Modes :
            ReadyChannel(mode) =>
                /\ lastState[mode].has
                /\ lastState[mode].payload.global.todos = Projection(GlobalTarget)
                /\ DOMAIN lastState[mode].payload.folders = Folders
                /\ \A f \in Folders :
                      lastState[mode].payload.folders[f].todos = Projection(WorkspaceTarget(f))

\* C1 witness: both channels are ready, a remove was undone (two writes) and its handler
\* returned, nothing is in flight
C1_Witness ==
    /\ Quiescent
    /\ \A mode \in Modes : ReadyChannel(mode)
    /\ lastDone.kind = "removeTodo" /\ lastDone.w = 2
    /\ Projection(WorkspaceTarget("P1")) # <<>>

\* the item of a sequence that carries an id
ItemOf(todos, id) == CHOOSE t \in Range(todos) : t.id = id

\* C2: every stored bucket holds positions exactly 1..N, and the bucket written last holds
\* the items that were handed to the write, unchanged but for the position, with items
\* that had a smaller position before the write having a smaller position after it.
C2_PositionsNormalized ==
    /\ \A target \in Targets :
          LET es == StoredBucket(globalState, workspaceState, target)
          IN /\ {es[i].position : i \in DOMAIN es} = 1..Len(es)
             /\ Cardinality(Ids(es)) = Len(es)
    /\ lastWrite.scope # NoTarget =>
          LET es == StoredBucket(globalState, workspaceState, lastWrite.scope)
              input == lastWrite.todos
          IN /\ Len(es) = Len(input)
             /\ Ids(es) = Ids(input)
             /\ \A i \in DOMAIN es :
                   es[i] = [ToEntity(ItemOf(input, es[i].id)) EXCEPT !.position = es[i].position]
             /\ \A i, j \in DOMAIN es :
                   ItemOf(input, es[i].id).position < ItemOf(input, es[j].id).position
                      => es[i].position < es[j].position

\* C2 witness: the array handed to the last write had a gap in its positions and was stored
C2_Witness ==
    /\ lastWrite.scope # NoTarget
    /\ Len(lastWrite.todos) >= 1
    /\ \E i \in DOMAIN lastWrite.todos : lastWrite.todos[i].position # i
    /\ Len(StoredBucket(globalState, workspaceState, lastWrite.scope)) = Len(lastWrite.todos)

\* per channel: delivered then buffered is what was posted; a ready channel buffers nothing
C3_StateInv ==
    active =>
        \A mode \in Modes :
            /\ delivered[mode] \o providers[mode].pendingMessages = posted[mode]
            /\ ReadyChannel(mode) => providers[mode].pendingMessages = <<>>

C3_Step ==
    \A mode \in Modes :
        delivered'[mode] # delivered[mode]
           => providers'[mode].webviewView /\ providers'[mode].ready

\* C3: while the host lives, per channel the messages delivered so far followed by the
\* buffered ones are exactly the messages posted, in posting order (each once, buffered ones
\* ahead of later ones); a ready channel buffers nothing (a message posted while ready is
\* delivered in the same step); and a message reaches a webview only in a step that leaves
\* its channel ready (a message posted before the handshake is withheld until then).
C3_ReadinessBuffering == []C3_StateInv /\ [][C3_Step]_vars

\* C3 witness: one channel got two or more messages, some of them flushed at its handshake,
\* while the other, not ready, still withholds all of its own
C3_Witness ==
    /\ active
    /\ ReadyChannel("global")
    /\ Len(delivered["global"]) >= 2
    /\ delivered["global"][1].seq = 1
    /\ ~ReadyChannel("projects")
    /\ delivered["projects"] = <<>>
    /\ Len(providers["projects"].pendingMessages) >= 2

Entities(todos) == [i \in DOMAIN todos |-> ToEntity(todos[i])]

\* C4: when the undo of a removeTodo or clearScope is accepted and no other operation was
\* handled for that bucket since the handler read it, the bucket afterwards holds exactly
\* the items the handler read before removing: same order, positions, timestamps, titles
\* and completion flags.
C4_UndoRestoresBucket ==
    [][\A slot \in Slots :
          (UndoAccept(slot) /\ tasks[slot].clean)
             => StoredBucket(globalState', workspaceState', tasks[slot].scope)
                   = Entities(tasks[slot].todos)]_vars

\* C4 witness: an undo was accepted with nothing in between and the bucket is back
C4_Witness ==
    \E slot \in Slots :
        /\ tasks[slot].pc = "broadcast" /\ tasks[slot].kind = "removeTodo"
        /\ tasks[slot].w = 2 /\ tasks[slot].clean
        /\ Len(tasks[slot].todos) = 2
        /\ StoredBucket(globalState, workspaceState, tasks[slot].scope)
              = Entities(tasks[slot].todos)

\* the timer key and the live handles of the n-th schedule call
KeyOf(n) == BuildKey(sched[n].scope, sched[n].todoId)

HandlesOf(n) == {h \in timeouts : h[1] = n}

\* the bookkeeping of an undisturbed schedule, and the effect of its removal callback
C5_Inv ==
    \A n \in DOMAIN sched :
        sched[n].stopped = "no" =>
            /\ sched[n].cues <= 1 /\ sched[n].removals <= 1
            /\ sched[n].removals = 1 => sched[n].cues = 1 /\ HandlesOf(n) = {}
            /\ (sched[n].cues = 0) =>
                  /\ HandlesOf(n) = {<<n, "delay">>}
                  /\ KeyOf(n) \in DOMAIN timers /\ timers[KeyOf(n)] = <<n, "delay">>
            /\ (sched[n].cues = 1 /\ sched[n].removals = 0) =>
                  /\ HandlesOf(n) = {<<n, "fade">>}
                  /\ KeyOf(n) \in DOMAIN timers /\ timers[KeyOf(n)] = <<n, "fade">>

C5_Step ==
    \A n \in DOMAIN sched :
        FadeFires(n) =>
            /\ sched[n].todoId \notin
                  Ids(StoredBucket(globalState', workspaceState', sched[n].scope))
            /\ KeyOf(n) \notin DOMAIN timers'

\* C5: for a schedule that was never cancelled, replaced or disposed: until the cue it
\* holds the key with a live delay timer, the cue is sent once and arms the one removal
\* timer under the same key, the removal callback runs once and only after the cue, and
\* nothing of the schedule is live after it; the step in which the removal callback runs
\* leaves the item absent from its bucket and the key without a timer.
C5_OneCueThenOneRemoval == []C5_Inv /\ [][C5_Step]_vars

\* C5 witness: an undisturbed schedule has sent its cue and run its removal, the item is
\* gone and the key is free
C5_Witness ==
    \E n \in DOMAIN sched :
        /\ sched[n].stopped = "no" /\ sched[n].cues = 1 /\ sched[n].removals = 1
        /\ sched[n].todoId \notin Ids(StoredBucket(globalState, workspaceState, sched[n].scope))
        /\ KeyOf(n) \notin DOMAIN timers

\* C6: a schedule whose timer was cancelled in the delay phase has sent no cue, has not run
\* its removal callback (the item is not removed by it), and has no live timer left that
\* could do either later.
C6_CancelInDelay ==
    \A n \in DOMAIN sched :
        sched[n].stopped = "delay" =>
            sched[n].cues = 0 /\ sched[n].removals = 0 /\ HandlesOf(n) = {}

\* C6 witness: a timer was cancelled in its delay phase by toggling the item back, the
\* handler has returned and the item is still stored
C6_Witness ==
    \E n \in DOMAIN sched :
        /\ sched[n].stopped = "delay"
        /\ lastDone.kind = "toggleComplete" /\ Quiescent
        /\ sched[n].todoId \in Ids(StoredBucket(globalState, workspaceState, sched[n].scope))

\* C7: once a completed item with a pending auto-removal (delay or fade phase) is toggled
\* back to active, the removal callback of that schedule never runs.
C7_ReopenCancels ==
    \A n \in DOMAIN sched : sched[n].reopened => sched[n].removals = 0

\* C7 witness: an item was toggled back in the fade phase and its timer was cancelled
C7_Witness ==
    \E n \in DOMAIN sched :
        sched[n].reopened /\ sched[n].stopped = "fade" /\ sched[n].removals = 0

\* C8: a handler that has returned has broadcast the state once per write it made: none
\* for a message handled as a no-op (empty title, absent id, unresolvable scope, reorder
\* without effect, clear of an empty bucket, declined confirmation), one for a mutation,
\* two for a removal whose undo was accepted (the removal and the restore); a handler in
\* flight is at most one broadcast behind its writes and never ahead of them.
C8_OneBroadcastPerChange ==
    /\ lastDone.kind \notin {"activate", "webviewReady"} => lastDone.b = lastDone.w
    /\ \A slot \in Slots :
          tasks[slot].pc # "idle" =>
              /\ tasks[slot].b <= tasks[slot].w
              /\ tasks[slot].w <= tasks[slot].b + 1
              /\ tasks[slot].pc \in {"broadcast", "toggled", "removed"}
                    <=> tasks[slot].w = tasks[slot].b + 1

\* C8 witness: a clear whose confirmation was declined has returned: no write, no broadcast
C8_Witness ==
    /\ lastDone = Returned("clearScope", 0, 0)
    /\ Quiescent
    /\ config.confirmDestructiveActions
    /\ lastWrite.scope # NoTarget

\* C9: when a confirmed clearScope writes the empty bucket, the snapshot it captures is the
\* bucket as stored at that moment.
C9_ClearSnapshotIsCurrent ==
    [][\A slot \in Slots :
          ConfirmAccept(slot)
             => Entities(undoSnapshots'[ScopeKey(tasks[slot].scope)])
                   = StoredBucket(globalState, workspaceState, tasks[slot].scope)]_vars

\* C9 witness: a confirmation was accepted with nothing handled for the bucket meanwhile
C9_Witness ==
    \E slot \in Slots :
        /\ tasks[slot].pc = "removed" /\ tasks[slot].kind = "clearScope"
        /\ tasks[slot].clean /\ config.confirmDestructiveActions
        /\ Len(tasks[slot].todos) > 1
        /\ undoSnapshots[ScopeKey(tasks[slot].scope)] = tasks[slot].todos

\* every bucket but the addressed one holds after the step what it held before
OthersUnchanged(target) ==
    \A other \in Targets \ {target} :
        StoredBucket(globalState', workspaceState', other)
           = StoredBucket(globalState, workspaceState, other)

\* what a bucket returns, and which buckets a step may change
C10_Inv ==
    \A target \in Targets :
        \A t \in Range(ReadTodos(target)) :
            /\ origin[t.id] = target
            /\ t.scope = target.scope /\ t.workspaceFolder = target.workspaceFolder

C10_Step ==
    /\ \A slot \in Slots :
          (UndoAccept(slot) \/ ConfirmAccept(slot) \/ Broadcast(slot)
             \/ ToggleResumed(slot) \/ RemovedResumed(slot))
             => OthersUnchanged(tasks[slot].scope)
    /\ \A n \in DOMAIN sched : FadeFires(n) => OthersUnchanged(sched[n].scope)
    /\ \A mode \in Modes : \A scope \in ScopesSent(mode) :
          \/ ClearScope(mode, scope)
          \/ \E title \in Titles : CommitCreate(mode, scope, title)
          \/ \E order \in Perms(IdsSent(mode, scope)) : ReorderTodos(mode, scope, order)
          \/ \E todoId \in IdsSent(mode, scope) :
                \/ ToggleComplete(mode, scope, todoId)
                \/ RemoveTodo(mode, scope, todoId)
                \/ \E title \in Titles : CommitEdit(mode, scope, todoId, title)
          => OthersUnchanged(ScopeFromWebviewScope(scope))

\* C10: a step of an operation addressed to a bucket (a routed message, a continuation of
\* clear or undo, an auto-removal) leaves every other bucket as stored; and reading a bucket
\* returns only items that were created in it, tagged with that bucket.
C10_BucketIsolation == []C10_Inv /\ [][C10_Step]_vars

\* C10 witness: both partitions and the global bucket hold items, an auto-removal or a
\* clear has just written one partition
C10_Witness ==
    /\ lastWrite.scope = WorkspaceTarget("P1")
    /\ StoredBucket(globalState, workspaceState, WorkspaceTarget("P1")) = <<>>
    /\ StoredBucket(globalState, workspaceState, WorkspaceTarget("P2")) # <<>>
    /\ StoredBucket(globalState, workspaceState, GlobalTarget) # <<>>

\* a title that is empty or holds white space only
Blank(title) == \A i \in DOMAIN title : title[i] = " "

\* the step stores nothing, posts nothing and leaves no handler waiting to broadcast
NothingStoredOrPosted ==
    /\ UNCHANGED <<globalState, workspaceState, providers, lastState, undoSnapshots>>
    /\ \A slot \in Slots : tasks'[slot].pc = tasks[slot].pc
    /\ lastDone'.w = 0 /\ lastDone'.b = 0

C11_Step ==
    \A mode \in Modes : \A scope \in ScopesSent(mode) : \A title \in Titles :
        Blank(title) =>
            /\ CommitCreate(mode, scope, title)
                  => NothingStoredOrPosted /\ lastDone'.kind = "commitCreate"
            /\ \A todoId \in IdsSent(mode, scope) :
                  CommitEdit(mode, scope, todoId, title)
                     => NothingStoredOrPosted /\ lastDone'.kind = "commitEdit"

\* C11: a commitCreate message whose title is empty or white space only, and a commitEdit
\* message whose trimmed title is empty, leave every bucket as stored, post no message to
\* any view and return without a pending broadcast.
C11_BlankTitleIsNoOp == [][C11_Step]_vars

\* C11 witness: only the global view has ever run, a commitCreate handler has returned
\* without writing or broadcasting (its scope was valid, so its title was blank), and the
\* bucket still holds its items
C11_Witness ==
    /\ lastDone = Returned("commitCreate", 0, 0)
    /\ webviews["projects"].phase = "none"
    /\ Len(GetGlobalTodos) = 2

\* the step starts a handler that is left at pc
Starts(pc) == \E slot \in Slots : tasks[slot].pc = "idle" /\ tasks'[slot].pc = pc

C12_Step ==
    /\ \A mode \in Modes : \A scope \in Sections(mode) :
          (ClearScope(mode, scope) /\ config.confirmDestructiveActions) =>
             /\ Len(ReadTodos(scope)) = 1 =>
                   /\ ~Starts("confirm") /\ Starts("removed")
                   /\ StoredBucket(globalState', workspaceState', scope) = <<>>
             /\ Len(ReadTodos(scope)) >= 2 =>
                   /\ Starts("confirm") /\ ~Starts("removed")
                   /\ UNCHANGED <<globalState, workspaceState, undoSnapshots>>
    /\ \A slot \in Slots :
          /\ ConfirmDecline(slot) =>
                /\ UNCHANGED <<globalState, workspaceState, undoSnapshots>>
                /\ tasks'[slot].pc = "idle" /\ lastDone' = Returned("clearScope", 0, 0)
          /\ ConfirmAccept(slot) =>
                StoredBucket(globalState', workspaceState', tasks[slot].scope) = <<>>

\* C12: with confirmDestructiveActions set, a clear of a bucket of exactly one todo saves
\* the empty bucket without showing the confirmation dialog; a clear of a bucket of two or
\* more todos shows the dialog and writes nothing before the answer; a dismissed dialog ends
\* the clear with nothing written, an accepted one empties the bucket.
C12_ConfirmOnlyForSeveral == [][C12_Step]_vars

\* C12 witness: with the setting on, one clear of a two-todo bucket waits at the dialog
\* while another clear, of a one-todo bucket, has already saved the empty bucket
C12_Witness ==
    /\ config.confirmDestructiveActions
    /\ \E s1, s2 \in Slots :
          /\ tasks[s1].kind = "clearScope" /\ tasks[s1].pc = "confirm"
          /\ Len(tasks[s1].todos) = 2
          /\ Len(StoredBucket(globalState, workspaceState, tasks[s1].scope)) = 2
          /\ tasks[s2].kind = "clearScope" /\ tasks[s2].pc = "removed"
          /\ Len(tasks[s2].todos) = 1
          /\ StoredBucket(globalState, workspaceState, tasks[s2].scope) = <<>>

\* the calls on scopeKey made before call i
EarlierOn(scopeKey, i) == {j \in 1..(i - 1) : calls[j].key = scopeKey}

\* the last call on scopeKey before call i was a capture
CapturedBefore(scopeKey, i) ==
    /\ EarlierOn(scopeKey, i) # {}
    /\ calls[Max(EarlierOn(scopeKey, i))].op = "captureSnapshot"

\* C13: every consumeSnapshot returns the array of the most recent captureSnapshot for its
\* key when no consumeSnapshot for that key came in between (an earlier capture is gone),
\* and undefined otherwise; the cache holds a snapshot for exactly the keys whose last call
\* was a capture.
C13_SingleSlotReadOnce ==
    /\ \A i \in DOMAIN calls :
          calls[i].op = "consumeSnapshot" =>
             IF CapturedBefore(calls[i].key, i)
             THEN calls[i].result
                     = [defined |-> TRUE,
                        todos |-> calls[Max(EarlierOn(calls[i].key, i))].todos]
             ELSE ~calls[i].result.defined
    /\ DOMAIN undoSnapshots
          = {k \in ScopeKeys : CapturedBefore(k, Len(calls) + 1)}

\* C13 witness: two different captures for one key, then two consumes of that key
C13_Witness ==
    /\ Len(calls) = 4
    /\ \A i \in 1..4 : calls[i].key = "global"
    /\ calls[1].op = "captureSnapshot" /\ calls[2].op = "captureSnapshot"
    /\ calls[1].todos # calls[2].todos
    /\ calls[3].op = "consumeSnapshot" /\ calls[3].result.todos = calls[2].todos
    /\ calls[4].op = "consumeSnapshot" /\ ~calls[4].result.defined

\* the ids, positions and updatedAt stamps of an array, in array order
IdsInOrder(todos) == [i \in DOMAIN todos |-> todos[i].id]
PositionsInOrder(todos) == [i \in DOMAIN todos |-> todos[i].position]
StampOf(todos, id) == ItemOf(todos, id).updatedAt

\* the call reorders A, B, C (ids 1, 2, 3 at positions 1, 2, 3) with the order [C, A]
ReorderedCA ==
    /\ calls # <<>> /\ calls[1].op = "reorderTodosByOrder" /\ calls[1].returned
    /\ IdsInOrder(calls[1].todos) = <<1, 2, 3>>
    /\ PositionsInOrder(calls[1].todos) = <<1, 2, 3>>
    /\ calls[1].order = <<3, 1>>

\* C14 as stated: the result is [C, A, B] at positions [1, 2, 3], B keeps its updatedAt,
\* A and C get the current time.
C14_ReorderExampleStated ==
    ReorderedCA =>
        /\ IdsInOrder(calls[1].result) = <<3, 1, 2>>
        /\ PositionsInOrder(calls[1].result) = <<1, 2, 3>>
        /\ StampOf(calls[1].result, 2) = StampOf(calls[1].todos, 2)
        /\ StampOf(calls[1].result, 1) = now /\ StampOf(calls[1].result, 3) = now

\* C14: reordering A, B, C (positions 1, 2, 3) with the order [C, A] yields [C, A, B] at
\* positions [1, 2, 3] and reports a change; B moved from position 2 to 3, so A, B and C
\* all get the current time as updatedAt.
C14_ReorderExample ==
    ReorderedCA =>
        /\ IdsInOrder(calls[1].result) = <<3, 1, 2>>
        /\ PositionsInOrder(calls[1].result) = <<1, 2, 3>>
        /\ calls[1].changed
        /\ \A id \in {1, 2, 3} :
              /\ StampOf(calls[1].result, id) = now
              /\ StampOf(calls[1].result, id) # StampOf(calls[1].todos, id)

\* C14 witness: the call of the example has returned
C14_Witness == ReorderedCA /\ Len(calls[1].result) = 3

\* where an id stands in an array of todos, and where it first occurs in an id order
IndexIn(todos, id) == CHOOSE i \in DOMAIN todos : todos[i].id = id
FirstIn(order, id) == CHOOSE i \in DOMAIN order : order[i] = id /\ \A j \in 1..(i - 1) : order[j] # id

\* C15: whatever the id order holds (unknown ids, repeated ids, omissions), the reordered
\* array is a permutation of the input array: every todo occurs exactly once and keeps its
\* id, title, completed flag and createdAt; the todos whose ids are listed come first, in
\* the order of their first listing, and the unlisted todos follow in their prior order.
C15_ReorderIsPermutation ==
    (calls # <<>> /\ calls[1].op = "reorderTodosByOrder" /\ calls[1].returned) =>
        LET todos == calls[1].todos
            order == calls[1].order
            result == calls[1].result
            listed == Ids(todos) \cap Range(order)
            k == Cardinality(listed)
        IN /\ Len(result) = Len(todos)
           /\ \A id \in Ids(todos) :
                 /\ Cardinality({i \in DOMAIN result : result[i].id = id}) = 1
                 /\ ItemOf(result, id).title = ItemOf(todos, id).title
                 /\ ItemOf(result, id).completed = ItemOf(todos, id).completed
                 /\ ItemOf(result, id).createdAt = ItemOf(todos, id).createdAt
           /\ \A i \in DOMAIN result : (i <= k) = (result[i].id \in listed)
           /\ \A i, j \in DOMAIN result :
                 i < j =>
                    /\ j <= k => FirstIn(order, result[i].id) < FirstIn(order, result[j].id)
                    /\ i > k => IndexIn(todos, result[i].id) < IndexIn(todos, result[j].id)

\* C15 witness: three todos, an order that repeats an id, names an unknown id and omits
\* two todos; the listed todo is first, the omitted ones follow in their prior order
C15_Witness ==
    /\ calls # <<>> /\ calls[1].op = "reorderTodosByOrder" /\ calls[1].returned
    /\ Len(calls[1].todos) = 3
    /\ calls[1].order = <<3, 0, 3>>
    /\ IdsInOrder(calls[1].result) = <<3, 1, 2>>

\* the live timer handles that belong to a key
LiveOn(key) == {h \in timeouts : KeyOf(h[1]) = key}

\* call i is a schedule made while auto-delete was disabled
DisabledSchedule(i) == calls[i].op = "schedule" /\ ~calls[i].enabled

\* an enabled schedule for the key of call i lies strictly between calls i and j
RescheduledBetween(i, j) ==
    \E m \in (i + 1)..(j - 1) :
        calls[m].op = "schedule" /\ calls[m].enabled /\ calls[m].key = calls[i].key

C16_Inv ==
    \A i \in DOMAIN calls :
        DisabledSchedule(i) =>
            /\ \A j \in DOMAIN calls :
                  (j > i /\ calls[j].op \in {"sendCue", "removeTodo"}
                     /\ calls[j].key = calls[i].key) => RescheduledBetween(i, j)
            /\ ~RescheduledBetween(i, Len(calls) + 1) =>
                  calls[i].key \notin DOMAIN timers /\ LiveOn(calls[i].key) = {}

C16_Step ==
    \A item \in AutoItems : \A configuration \in AutoConfigs :
        (AutoSchedule(item, configuration) /\ ~configuration.autoDeleteCompleted) =>
            LET key == BuildKey(item.scope, item.todoId)
            IN /\ key \notin DOMAIN timers'
               /\ DOMAIN timers' = DOMAIN timers \ {key}
               /\ \A k \in DOMAIN timers' : timers'[k] = timers[k]
               /\ timeouts' = timeouts \ LiveOn(key)
               /\ Len(sched') = Len(sched)

\* C16: a schedule call made while autoDeleteCompleted is off does what cancel does: the
\* key's timer, in the delay or the fade phase, is cleared and forgotten, the other keys
\* keep theirs, no timer is started; and until auto-delete is scheduled again for the key
\* with the setting on, neither sendCue nor removeTodo is called for it.
C16_DisabledScheduleCancels == []C16_Inv /\ [][C16_Step]_vars

\* C16 witness: a timer in its fade phase was cleared by a schedule call made with the
\* setting off; its removal never ran and nothing is live
C16_Witness ==
    /\ Len(calls) = 3 /\ DisabledSchedule(3)
    /\ calls[1].op = "schedule" /\ calls[1].enabled /\ calls[1].key = calls[3].key
    /\ calls[2].op = "sendCue"
    /\ sched[1].stopped = "fade" /\ sched[1].removals = 0
    /\ timeouts = {} /\ timers = <<>>

\* C17: whenever the removal callback of a schedule takes its item out of the bucket, the
\* item is stored as completed at that moment.
C17_RemovesCompletedOnly ==
    [][\A n \in DOMAIN sched :
          (FadeFires(n) /\ sched[n].todoId \in Ids(ReadTodos(sched[n].scope)))
             => ItemOf(ReadTodos(sched[n].scope), sched[n].todoId).completed]_vars

\* C17 witness: the removal timer of a schedule is live while its item is stored as active
C17_Witness ==
    \E n \in DOMAIN sched :
        /\ <<n, "fade">> \in timeouts
        /\ sched[n].todoId \in Ids(ReadTodos(sched[n].scope))
        /\ ~ItemOf(ReadTodos(sched[n].scope), sched[n].todoId).completed

\* the schedule calls for a key that started a timer, made before call j
StartedBefore(key, j) ==
    {i \in 1..(j - 1) : calls[i].op = "schedule" /\ calls[i].enabled /\ calls[i].key = key}

\* C18: every key has at most one live timer, the one its slot holds, and that timer belongs
\* to the newest schedule for the key; every sendCue and removeTodo call comes from the
\* newest schedule made for its key before it, so a schedule replaced in its delay or fade
\* phase fires nothing any more.
C18_OneLiveTimerPerKey ==
    /\ \A n \in DOMAIN sched :
          /\ Cardinality(LiveOn(KeyOf(n))) <= 1
          /\ LiveOn(KeyOf(n))
                = (IF KeyOf(n) \in DOMAIN timers THEN {timers[KeyOf(n)]} ELSE {})
          /\ HandlesOf(n) # {} => \A m \in DOMAIN sched : KeyOf(m) = KeyOf(n) => m <= n
    /\ \A j \in DOMAIN calls :
          calls[j].op \in {"sendCue", "removeTodo"} =>
             /\ StartedBefore(calls[j].key, j) # {}
             /\ calls[j].n = calls[Max(StartedBefore(calls[j].key, j))].n

\* C18 witness: three schedules for one key; the first was replaced in its delay phase, the
\* second in its fade phase, neither ran its removal, the third holds the one live timer
C18_Witness ==
    /\ Len(sched) = 3
    /\ KeyOf(1) = KeyOf(2) /\ KeyOf(2) = KeyOf(3)
    /\ sched[1].stopped = "delay" /\ sched[1].cues = 0
    /\ sched[2].stopped = "fade" /\ sched[2].cues = 1 /\ sched[2].removals = 0
    /\ sched[3].cues = 1 /\ timeouts = {<<3, "fade">>}

\* the slot of schedule n's key holds a timer of schedule n
HoldsSlot(n) == KeyOf(n) \in DOMAIN timers /\ timers[KeyOf(n)][1] = n

C19_Inv ==
    /\ \A j \in DOMAIN calls : calls[j].settled = "fulfilled"
    /\ \A key \in DOMAIN timers : timers[key] \in timeouts
    /\ \A n \in DOMAIN sched :
          /\ sched[n].cues <= 1 /\ sched[n].removals <= 1
          /\ ~(sched[n].removals = 1 /\ sched[n].stopped # "no")
          /\ HoldsSlot(n) = (sched[n].removals = 0 /\ sched[n].stopped = "no")

C19_Step ==
    \A n \in DOMAIN sched : \A outcome \in CallbackOutcomes :
        /\ AutoDelayFires(n, outcome) =>
              /\ HoldsSlot(n) /\ timers'[KeyOf(n)] = <<n, "fade">>
              /\ timeouts' = (timeouts \ {<<n, "delay">>}) \cup {<<n, "fade">>}
        /\ AutoFadeFires(n, outcome) =>
              /\ HoldsSlot(n) /\ KeyOf(n) \notin DOMAIN timers'
              /\ timeouts' = timeouts \ {<<n, "fade">>}
              /\ \A k \in DOMAIN timers \ {KeyOf(n)} :
                    k \in DOMAIN timers' /\ timers'[k] = timers[k]

\* C19: whether sendCue and removeTodo return or throw, the timer callbacks end normally
\* (nothing is thrown out of them); every slot that is occupied holds a live timer; a
\* schedule holds its key's slot from the schedule call until either its removal callback
\* runs or it is cancelled, never both, and the callback that runs last frees the slot in
\* the same step in which its timer fires.
C19_CallbackErrorsContained == []C19_Inv /\ [][C19_Step]_vars

\* C19 witness: sendCue threw and removeTodo threw for the same schedule; both callbacks
\* ended normally and the key holds nothing
C19_Witness ==
    \E i, j \in DOMAIN calls :
        /\ calls[i].op = "sendCue" /\ calls[i].outcome = "throws"
        /\ calls[j].op = "removeTodo" /\ calls[j].outcome = "throws"
        /\ calls[i].n = calls[j].n
        /\ calls[j].key \notin DOMAIN timers /\ timeouts = {}

\* the createTodo call has returned or thrown
CreateDone == calls # <<>> /\ calls[1].op = "createTodo" /\ calls[1].returned

\* the input names the workspace scope without a folder
FolderMissing(input) == input.scope = "workspace" /\ input.workspaceFolder = ""

StoredIds == UNION {Ids(ReadTodos(target)) : target \in Targets}

\* C21: a createTodo call that is given no position and does not throw returns a todo whose
\* id no stored todo has, that is not completed, whose createdAt equals its updatedAt, and
\* whose position is 1 for an empty bucket and the largest position of the bucket plus 1
\* otherwise; appended to the bucket and sorted by position it is the last item.
C21_CreatedItemIsLast ==
    (CreateDone /\ ~calls[1].threw /\ calls[1].input.position = 0) =>
        LET input == calls[1].input
            todo == calls[1].result[1]
            bucket == ReadTodos([scope |-> input.scope,
                                 workspaceFolder |-> input.workspaceFolder])
            sorted == SortByPosition(Append(bucket, todo))
        IN /\ todo.id \notin StoredIds
           /\ ~todo.completed
           /\ todo.createdAt = todo.updatedAt
           /\ bucket = <<>> => todo.position = 1
           /\ bucket # <<>> =>
                 /\ \E i \in DOMAIN bucket : todo.position = bucket[i].position + 1
                 /\ \A i \in DOMAIN bucket : bucket[i].position < todo.position
           /\ sorted[Len(sorted)].id = todo.id

\* C21 witness: a todo was created for partition P1, which holds one todo, and got
\* position 2
C21_Witness ==
    /\ CreateDone /\ ~calls[1].threw
    /\ calls[1].input.scope = "workspace" /\ calls[1].input.workspaceFolder = "P1"
    /\ calls[1].input.position = 0
    /\ Len(GetWorkspaceTodos("P1")) = 1
    /\ calls[1].result[1].position = 2

\* what a view shows once it has received the state broadcast that answers a ready message
InitShown == [has |-> TRUE, payload |-> StateUpdate("onInit").payload]

C22_Step ==
    \A mode \in Modes :
        WebviewReady(mode) =>
            /\ providers'[mode].ready /\ providers'[mode].pendingMessages = <<>>
            /\ lastState'[mode] = InitShown
            /\ \A m \in Modes \ {mode} :
                  /\ providers'[m].ready = providers[m].ready
                  /\ providers'[m].webviewView = providers[m].webviewView
                  /\ IF providers[m].webviewView /\ providers[m].ready
                     THEN /\ lastState'[m] = InitShown
                          /\ providers'[m].pendingMessages = providers[m].pendingMessages
                     ELSE /\ lastState'[m] = lastState[m]
                          /\ providers'[m].pendingMessages
                                = Append(providers[m].pendingMessages, StateUpdate("onInit"))
            /\ UNCHANGED <<globalState, workspaceState, undoSnapshots, timers, timeouts>>

\* C22: a webviewReady message of one view marks that view's provider ready and empties its
\* buffer into the view, the other provider's readiness is untouched; the state broadcast
\* it triggers goes to both providers: the reporting view and a ready other view show the
\* current state afterwards, an other provider that is not ready appends it to its buffer.
C22_ReadyBroadcastsToAll == [][C22_Step]_vars

\* C22 witness: the global view has reported ready and shows the state; the projects
\* provider, not ready, has buffered the activation broadcast and the one just triggered
C22_Witness ==
    /\ lastDone = Returned("webviewReady", 0, 1)
    /\ providers["global"].ready /\ lastState["global"] = InitShown
    /\ ~providers["projects"].ready
    /\ providers["projects"].pendingMessages = <<StateUpdate("general"), StateUpdate("onInit")>>

C23_Step ==
    /\ \A mode \in Modes :
          (HostResolveView(mode) /\ webviews[mode].loads >= 1) =>
             ~providers'[mode].ready /\ providers'[mode].pendingMessages = <<>>
    /\ HostDispose =>
          \A mode \in Modes :
             /\ ~providers'[mode].ready /\ ~providers'[mode].webviewView
             /\ providers'[mode].pendingMessages = <<>>

\* C23: when the host is disposed, and when a view that was resolved before is resolved
\* again after a reload, the provider is not ready afterwards and its buffer is empty, so
\* that the next ready message can only flush messages posted after that point.
C23_TeardownDropsBuffer == [][C23_Step]_vars

\* C23 witness: a view was resolved a second time while its provider, never ready since
\* the first resolve, still holds a message posted before the reload
C23_Witness ==
    \E mode \in Modes :
        /\ webviews[mode].loads = 2 /\ webviews[mode].phase = "loading"
        /\ ~providers[mode].ready
        /\ providers[mode].pendingMessages # <<>>
        /\ delivered[mode] = <<>>

\* the ids of a bucket in stored order, one id left out
IdsExcept(todos, todoId) == SelectSeq(IdsInOrder(todos), LAMBDA id : id # todoId)

\* the live timeouts that would cue or remove the item
PendingFor(ts, S, scope, todoId) ==
    {h \in ts : S[h[1]].scope = scope /\ S[h[1]].todoId = todoId}

\* a removeTodo message for an item its bucket holds is being handled
RemovesExisting(mode, scope, todoId) ==
    /\ RemoveTodo(mode, scope, todoId)
    /\ ScopeFromWebviewScope(scope) # NoTarget
    /\ todoId \in Ids(StoredBucket(globalState, workspaceState, ScopeFromWebviewScope(scope)))

C24_Step ==
    \A mode \in Modes : \A scope \in WebviewScopes : \A todoId \in 0..nextId :
        RemovesExisting(mode, scope, todoId) =>
            LET target == ScopeFromWebviewScope(scope)
                before == StoredBucket(globalState, workspaceState, target)
                after == StoredBucket(globalState', workspaceState', target)
            IN /\ todoId \notin Ids(after)
               /\ IdsInOrder(after) = IdsExcept(before, todoId)
               /\ BuildKey(target, todoId) \notin DOMAIN timers'
               /\ PendingFor(timeouts', sched', target, todoId) = {}
               /\ ScopeKey(target) \in DOMAIN undoSnapshots'
               /\ Entities(undoSnapshots'[ScopeKey(target)]) = before

\* C24: when a removeTodo message for an item X of its bucket is handled, then before the
\* handler first suspends X is gone from the stored bucket, the other items are stored in
\* the order they had, no timer of the coordinator is pending for X, and the snapshot slot
\* of the bucket's key holds the bucket as it was stored before the removal.
C24_RemoveEffect == [][C24_Step]_vars

\* C24 witness: a completed item whose removal timer was pending has been removed from a
\* bucket of two, the handler waits at its save, and the snapshot holds both items
C24_Witness ==
    \E slot \in Slots : \E n \in DOMAIN sched :
        /\ tasks[slot].pc = "removed" /\ tasks[slot].kind = "removeTodo" /\ tasks[slot].clean
        /\ sched[n].scope = tasks[slot].scope /\ sched[n].todoId = tasks[slot].todoId
        /\ sched[n].stopped # "no"
        /\ Len(tasks[slot].todos) = 2
        /\ undoSnapshots[ScopeKey(tasks[slot].scope)] = tasks[slot].todos
        /\ Len(StoredBucket(globalState, workspaceState, tasks[slot].scope)) = 1

\* the step in which a clearScope proceeds to its save: at once when no confirmation is
\* required, on the accepted dialog otherwise
ClearProceeds(target) ==
    \/ \E mode \in Modes : \E scope \in WebviewScopes :
          /\ ClearScope(mode, scope)
          /\ ScopeFromWebviewScope(scope) = target
          /\ Len(ReadTodos(target)) > 0 /\ ~NeedsConfirmation(ReadTodos(target))
    \/ \E slot \in Slots : ConfirmAccept(slot) /\ tasks[slot].scope = target

ClearedEmpty(target) == StoredBucket(globalState', workspaceState', target) = <<>>

ClearedNoTimers(target) ==
    \A todoId \in Ids(StoredBucket(globalState, workspaceState, target)) :
        /\ BuildKey(target, todoId) \notin DOMAIN timers'
        /\ PendingFor(timeouts', sched', target, todoId) = {}

ClearedSnapshot(target) ==
    /\ ScopeKey(target) \in DOMAIN undoSnapshots'
    /\ Entities(undoSnapshots'[ScopeKey(target)])
          = StoredBucket(globalState, workspaceState, target)

C25_Step ==
    \A target \in Targets :
        ClearProceeds(target) =>
            ClearedEmpty(target) /\ ClearedNoTimers(target) /\ ClearedSnapshot(target)

\* C25: when a clearScope of a non-empty bucket proceeds (no confirmation required, or the
\* confirmation accepted), the stored bucket is empty afterwards, no timer of the coordinator
\* is pending for an item the bucket held, and the snapshot slot of the bucket's key holds
\* the items that were cleared.
C25_ClearEffect == [][C25_Step]_vars

\* C25 witness: a confirmed clear of a bucket of several items has written the empty bucket
\* and waits at its save
C25_Witness ==
    \E slot \in Slots :
        /\ tasks[slot].pc = "removed" /\ tasks[slot].kind = "clearScope"
        /\ config.confirmDestructiveActions /\ Len(tasks[slot].todos) > 1
        /\ StoredBucket(globalState, workspaceState, tasks[slot].scope) = <<>>
        /\ ScopeKey(tasks[slot].scope) \in DOMAIN undoSnapshots

\* the handler started by a removal timer, while it is suspended
AutoRemoving(slot) == tasks[slot].pc # "idle" /\ tasks[slot].kind = "autoDelete"

\* an auto-removal only ever waits at its save: it never reaches the undo toast
C26_Inv == \A slot \in Slots : AutoRemoving(slot) => tasks[slot].pc = "broadcast"

C26_Step ==
    /\ \A n \in DOMAIN sched :
          FadeFires(n) => undoSnapshots' = undoSnapshots /\ cleanups' = cleanups
    /\ \A slot \in Slots :
          (AutoRemoving(slot) /\ Broadcast(slot)) =>
             /\ undoSnapshots' = undoSnapshots /\ cleanups' = cleanups
             /\ tasks'[slot].pc = "idle"

\* C26: an auto-removal touches no undo snapshot and offers no undo: the removal callback
\* and the continuation of removeTodoWithoutUndo leave every snapshot slot and every snapshot
\* clean-up timer as they were, and the handler returns after its broadcast without ever
\* waiting at an undo toast.
C26_AutoRemovalKeepsSnapshots == []C26_Inv /\ [][C26_Step]_vars

\* C26 witness: an auto-removal has deleted an item of a bucket whose snapshot slot is
\* filled, and waits at its save with the slot as it was
C26_Witness ==
    \E slot \in Slots :
        /\ AutoRemoving(slot) /\ tasks[slot].w = 1
        /\ ScopeKey(tasks[slot].scope) \in DOMAIN undoSnapshots
        /\ tasks[slot].todoId \in Ids(undoSnapshots[ScopeKey(tasks[slot].scope)])
        /\ tasks[slot].todoId \notin Ids(StoredBucket(globalState, workspaceState, tasks[slot].scope))

\* the scope descriptor of a message names the workspace scope without a folder
MissingFolder(scope) == scope.scope = "workspace" /\ scope.workspaceFolder = ""

\* the bucket the descriptor names does not hold the id
AbsentId(scope, todoId) == todoId \notin Ids(StoredBucket(globalState, workspaceState, scope))

\* a message of unknown type, a message without its folder, or a message naming an id its
\* bucket does not hold is being handled
Declined(mode) ==
    \/ UnknownMessage(mode)
    \/ \E scope \in WebviewScopes :
          /\ MissingFolder(scope)
          /\ \/ \E title \in Titles : CommitCreate(mode, scope, title)
             \/ \E order \in Perms(IdsSent(mode, scope)) : ReorderTodos(mode, scope, order)
             \/ ClearScope(mode, scope)
    \/ \E scope \in WebviewScopes : \E todoId \in 0..nextId :
          /\ MissingFolder(scope) \/ AbsentId(scope, todoId)
          /\ \/ \E title \in Titles : CommitEdit(mode, scope, todoId, title)
             \/ ToggleComplete(mode, scope, todoId)
             \/ RemoveTodo(mode, scope, todoId)

C27_Step ==
    \A mode \in Modes :
        Declined(mode) =>
            /\ UNCHANGED <<globalState, workspaceState, undoSnapshots, cleanups,
                           timers, timeouts>>
            /\ lastDone'.w = 0 /\ lastDone'.b = 0
            /\ \A slot \in Slots : tasks'[slot].pc = tasks[slot].pc

\* C27: a message of unknown type, a message whose workspace scope lacks its folder, and a
\* message naming an item id its bucket does not hold are each declined: the handler returns
\* at once without having written or broadcast, and the mementos, the snapshots with their
\* clean-up timers and the auto-removal timers are as they were.
C27_DeclinedIsNoOp == [][C27_Step]_vars

\* a message of unknown type was declined while a snapshot was held
C27_UnknownSeen ==
    /\ lastDone = Returned("unknown", 0, 0)
    /\ undoSnapshots # <<>>

\* C27 witness: the global view named an id its bucket no longer holds, in a toggle or a
\* remove, while a snapshot was held, and the handler returned without a write
C27_Witness ==
    /\ lastDone.kind \in {"toggleComplete", "removeTodo"}
    /\ lastDone.w = 0 /\ lastDone.b = 0
    /\ webviews["projects"].phase = "none"
    /\ undoSnapshots # <<>>

\* the item is stored, in some bucket, as completed
CompletedStored(id) ==
    \E target \in Targets :
        \E i \in DOMAIN StoredBucket(globalState, workspaceState, target) :
            /\ StoredBucket(globalState, workspaceState, target)[i].id = id
            /\ StoredBucket(globalState, workspaceState, target)[i].completed

\* the item was completed by a toggle that started its timer
TimerStarted(id) == \E n \in DOMAIN sched : sched[n].todoId = id

\* the ids of the items an earlier session left in the store
SeededIds ==
    UNION {Ids(seed.g.todos) \cup UNION {Ids(seed.w.folders[f]) : f \in DOMAIN seed.w.folders}
              : seed \in SeedStores}

\* C28: with auto-delete enabled and the coordinator not disposed, an item that a toggle
\* completed, starting its timer, and that is stored as completed is eventually no longer
\* stored as completed (it was removed or toggled back), given that timers fire, handlers
\* resume and dialogs are answered. Stated for the items the store starts with.
C28_CompletedEventuallyGone ==
    \A id \in SeededIds :
        (config.autoDeleteCompleted /\ active /\ TimerStarted(id) /\ CompletedStored(id))
            ~> (~CompletedStored(id) \/ ~active)

\* C28 witness: a clear of the bucket was declined after the timer of a completed item was
\* cancelled, and the item rests in the store with no timer
C28_Witness ==
    \E id \in SeededIds :
        /\ config.autoDeleteCompleted /\ active /\ Quiescent
        /\ lastDone = Returned("clearScope", 0, 0)
        /\ TimerStarted(id) /\ CompletedStored(id)
        /\ timers = <<>> /\ timeouts = {}

BuildCalls == {i \in DOMAIN calls : calls[i].op = "buildWebviewStateSnapshot"}

Ascending(todos) ==
    \A i \in DOMAIN todos : \A j \in DOMAIN todos :
        i < j => todos[i].position <= todos[j].position

\* the view lists exactly the stored items of the bucket, in ascending position
SortedViewOf(view, scope) ==
    /\ Ascending(view)
    /\ Len(view) = Len(StoredBucket(globalState, workspaceState, scope))
    /\ {ToEntity(view[i]) : i \in DOMAIN view}
          = Range(StoredBucket(globalState, workspaceState, scope))

C29_Inv ==
    \A i \in BuildCalls :
        /\ SortedViewOf(calls[i].result.global.todos, GlobalTarget)
        /\ \A f \in Folders :
              SortedViewOf(calls[i].result.folders[f].todos, WorkspaceTarget(f))

C29_Step ==
    \A emptyKind \in EmptyStateKinds :
        BuildCall(emptyKind) =>
            UNCHANGED <<globalState, workspaceState, undoSnapshots, cleanups, timers, timeouts>>

\* C29: every call of the snapshot builder returns, for the global bucket and for each
\* workspace folder, the stored items of the bucket in ascending position, and leaves the
\* mementos, the undo snapshots with their clean-up timers and the auto-removal timers as
\* they were, however often it is called.
C29_BuilderSortsAndKeeps == []C29_Inv /\ [][C29_Step]_vars

\* C29 witness: the builder was called twice over a global bucket that is not stored in
\* position order, with a snapshot held and a timer pending
C29_Witness ==
    /\ Cardinality(BuildCalls) >= 2
    /\ ~Ascending(StoredBucket(globalState, workspaceState, GlobalTarget))
    /\ ~Ascending(StoredBucket(globalState, workspaceState, WorkspaceTarget("P1")))
    /\ undoSnapshots # <<>> /\ timeouts # {}
    /\ calls[Len(calls)].op = "buildWebviewStateSnapshot"

\* what a step handed to the provider of a mode
NewlyPosted(mode) == SubSeq(posted'[mode], Len(posted[mode]) + 1, Len(posted'[mode]))

PostedKept(mode) == SubSeq(posted'[mode], 1, Len(posted[mode])) = posted[mode]

\* the channel of a scope: Global to 'global', Workspace to 'projects'
ChannelOf(scope) == IF scope.scope = "global" THEN "global" ELSE "projects"

\* the inline-start message the command of a suspended task owes
IsInlineStart(message, t) ==
    /\ message.type = (IF t.kind = "addTodo" THEN "startInlineCreate" ELSE "startInlineEdit")
    /\ message.scope = t.scope
    /\ t.kind = "editTodo" => message.todoId = t.todoId

\* the command's last step: one state broadcast to both channels, then one inline-start
\* message to the channel of the scope
DispatchesOnce(slot) ==
    \A mode \in Modes :
        /\ PostedKept(mode)
        /\ Len(NewlyPosted(mode)) = (IF mode = ChannelOf(tasks[slot].scope) THEN 2 ELSE 1)
        /\ NewlyPosted(mode)[1] = StateUpdate("general")
        /\ mode = ChannelOf(tasks[slot].scope)
              => IsInlineStart(NewlyPosted(mode)[2], tasks[slot])

\* the pick of a suspended editTodo names a todo that is no longer stored
ChosenMissing(slot, k) ==
    k > 0 /\ tasks[slot].todos[k].todoId \notin Ids(ReadTodos(tasks[slot].todos[k].scope))

C30_Step ==
    /\ (AddTodo \/ EditTodo) => posted' = posted /\ UNCHANGED <<globalState, workspaceState>>
    /\ \A slot \in 1..MaxTasks :
          /\ Focused(slot) =>
                DispatchesOnce(slot) /\ UNCHANGED <<globalState, workspaceState>>
          /\ \A choice \in Targets \cup {NoTarget} :
                ScopePicked(slot, choice) =>
                   /\ posted' = posted /\ UNCHANGED <<globalState, workspaceState>>
                   /\ tasks'[slot].pc = (IF choice = NoTarget THEN "idle" ELSE "focus")
          /\ \A k \in 0..Len(tasks[slot].todos) :
                TodoPicked(slot, k) =>
                   /\ posted' = posted /\ UNCHANGED <<globalState, workspaceState>>
                   /\ tasks'[slot].pc =
                         (IF k = 0 \/ ChosenMissing(slot, k) THEN "idle" ELSE "focus")

\* every command that ended had its inline-start message posted exactly when it was
\* dispatched: the messages of that kind on each channel are those of the dispatched commands
InlineStarts(mode) ==
    Cardinality({i \in DOMAIN posted[mode] :
                    posted[mode][i].type \in {"startInlineCreate", "startInlineEdit"}})

Dispatched(mode) ==
    Cardinality({i \in DOMAIN calls :
                    calls[i].outcome = "dispatched" /\ ChannelOf(calls[i].scope) = mode})

C30_Inv == \A mode \in Modes : InlineStarts(mode) = Dispatched(mode)

\* C30: an addTodo or editTodo command posts nothing and writes nothing while its pick is
\* open; when the pick is dismissed, or the todo picked is no longer stored, it returns
\* having posted nothing; otherwise it ends with one state broadcast followed by exactly one
\* startInlineCreate or startInlineEdit message for the chosen scope (and todo), handed to
\* the 'global' channel for the global scope and to the 'projects' channel for a workspace
\* folder, and the mementos are as they were.
C30_CommandsDispatchInline == []C30_Inv /\ [][C30_Step]_vars

\* C30 witness: an editTodo for a todo of a workspace folder was dispatched to the projects
\* channel, and another command ended without a message because its todo was gone
C30_Witness ==
    \E i \in DOMAIN calls : \E j \in DOMAIN calls :
        /\ calls[i].op = "editTodo" /\ calls[i].outcome = "dispatched"
        /\ calls[i].scope.scope = "workspace"
        /\ calls[j].outcome = "missing"
        /\ InlineStarts("projects") = 1 /\ InlineStarts("global") = 0
\* ---------------------------------------------------------------------- C31
\* the memento behind a bucket holds no envelope of the current schema version
EnvelopeUnusable(scope) ==
    IF scope.scope = "global"
    THEN ~globalState.present \/ globalState.version # SCHEMA_VERSION
    ELSE ~workspaceState.present \/ workspaceState.version # SCHEMA_VERSION

C31_Step ==
    \A scope \in Targets :
        ReadCall(scope) =>
            /\ EnvelopeUnusable(scope) => calls'[Len(calls')].result = <<>>
            /\ globalState' = globalState
            /\ workspaceState' = workspaceState

\* C31: a read of a bucket whose memento holds no envelope, or an envelope of another
\* schema version, returns no items, and no read changes what the mementos hold.
C31_ReadDefaultsOnMismatch == [][C31_Step]_vars

\* a read answered with the default although a stale envelope with items is stored, and
\* a read of an absent memento
C31_Witness ==
    /\ \E i \in DOMAIN calls :
          /\ calls[i].op = "getTodos" /\ calls[i].key = ScopeKey(GlobalTarget)
          /\ calls[i].result = <<>>
    /\ globalState.present /\ globalState.version # SCHEMA_VERSION
    /\ globalState.todos # <<>>
    /\ \E i \in DOMAIN calls :
          /\ calls[i].op = "getTodos" /\ calls[i].key = ScopeKey(WorkspaceTarget("P1"))
          /\ calls[i].result # <<>>
\* ---------------------------------------------------------------------- C32
\* C32: normalizePositions applied to its own result returns that result again: the same
\* todos in the same order, with the same positions and the same other fields.
C32_NormalizeIdempotent ==
    calls[1].applied >= 2 => calls[1].result = calls[1].first

\* applied twice to an array that the first application had to reorder and renumber
C32_Witness ==
    /\ calls[1].applied = 2
    /\ Len(calls[1].todos) = 3
    /\ calls[1].first # calls[1].todos
    /\ IdsInOrder(calls[1].first) # IdsInOrder(calls[1].todos)
    /\ \E i, j \in DOMAIN calls[1].todos :
          i # j /\ calls[1].todos[i].position = calls[1].todos[j].position
\* ---------------------------------------------------------------------- C33
\* dispose leaves no timer behind
DisposeEmpties == Deactivate => timers' = <<>> /\ timeouts' = {}

\* a timer callback of the coordinator runs: the delay timer's (fade cue) or the removal timer's
TimerCallbackRuns == \E n \in DOMAIN sched : DelayFires(n) \/ FadeFires(n)

C33_Step ==
    /\ DisposeEmpties
    /\ ~active => ~TimerCallbackRuns

\* C33: disposing the scheduler cancels every pending delay-phase and fade-phase timer and
\* empties the timer map, and after disposal no fade cue is sent and no removal callback runs.
C33_DisposeStopsTimers == [][C33_Step]_vars

\* the scheduler was disposed while a delay timer and a removal timer were pending
C33_Witness ==
    /\ ~active
    /\ timers = <<>> /\ timeouts = {}
    /\ \E n, m \in DOMAIN sched :
          /\ sched[n].stopped = "delay" /\ sched[m].stopped = "fade"
          /\ sched[n].cues = 0 /\ sched[m].removals = 0
\* ---------------------------------------------------------------------- C34
\* the stored entity with the given id in a bucket of a memento pair
EntityOf(g, w, scope, id) ==
    LET es == StoredBucket(g, w, scope)
    IN es[CHOOSE i \in DOMAIN es : es[i].id = id]

\* the ids a bucket holds before and after the step
StaysStored(scope) ==
    Ids(StoredBucket(globalState, workspaceState, scope))
        \cap Ids(StoredBucket(globalState', workspaceState', scope))

Before(scope, id) == EntityOf(globalState, workspaceState, scope, id)
After(scope, id) == EntityOf(globalState', workspaceState', scope, id)

\* the handlers that mutate a field of this very item
EditsIt(scope, id) ==
    \E mode \in Modes : \E title \in Titles : CommitEdit(mode, scope, id, title)
TogglesIt(scope, id) == \E mode \in Modes : ToggleComplete(mode, scope, id)
MovesIt(scope, id) ==
    /\ \E mode \in Modes : \E order \in Perms(IdsSent(mode, scope)) :
          ReorderTodos(mode, scope, order)
    /\ After(scope, id).position # Before(scope, id).position

C34_Step ==
    \A scope \in Targets : \A id \in StaysStored(scope) :
        /\ After(scope, id).title # Before(scope, id).title => EditsIt(scope, id)
        /\ After(scope, id).completed # Before(scope, id).completed => TogglesIt(scope, id)
        /\ After(scope, id).updatedAt # Before(scope, id).updatedAt =>
              EditsIt(scope, id) \/ TogglesIt(scope, id) \/ MovesIt(scope, id)

\* C34: the title, the completed flag and updatedAt of a stored item change only in an
\* edit, a toggle or a reorder move of that item; the renumbering after another item is
\* created or removed changes its position at most.
C34_OnlyMutationsStamp == [][C34_Step]_vars
\* the seeded second item was renumbered to position 1 by the removal of the first and
\* kept its title, flag and stamp; an item created later sits behind it
C34_Witness ==
    LET es == StoredBucket(globalState, workspaceState, GlobalTarget)
    IN /\ Len(es) = 2
       /\ es[1].id = 2 /\ es[1].position = 1
       /\ es[1].title = <<"b">> /\ es[1].completed /\ es[1].updatedAt = 0
       /\ es[2].createdAt > 0
\* ---------------------------------------------------------------------- C35
\* the ids of a bucket's stored entities, one entry per entity
StoredIdSeq(scope) == IdsInOrder(StoredBucket(globalState, workspaceState, scope))

\* C35: no id is stored twice, neither within a bucket nor in two buckets, and every
\* stored item lies in the bucket that createTodo made it for.
C35_IdsUniqueAndHome ==
    /\ \A scope \in Targets :
          \A i, j \in DOMAIN StoredIdSeq(scope) :
              StoredIdSeq(scope)[i] = StoredIdSeq(scope)[j] => i = j
    /\ \A s1, s2 \in Targets :
          s1 # s2 => Range(StoredIdSeq(s1)) \cap Range(StoredIdSeq(s2)) = {}
    /\ \A scope \in Targets : \A id \in Range(StoredIdSeq(scope)) :
          id \in DOMAIN origin /\ origin[id] = scope

\* an undo restore has put a removed item back, both seeded buckets hold items and an
\* item was created after the seeded ones
C35_Witness ==
    /\ lastDone.kind = "removeTodo" /\ lastDone.w = 2
    /\ StoredIdSeq(GlobalTarget) # <<>>
    /\ StoredIdSeq(WorkspaceTarget("P1")) # <<>>
    /\ \E id \in DOMAIN origin : id > 3
\* ---------------------------------------------------------------------- C36
\* another removeTodo or clearScope on the same bucket has removed its items and offers
\* its own undo
LaterDestructive(slot) ==
    \E other \in Slots \ {slot} :
        /\ tasks[other].pc = "undoOffer"
        /\ tasks[other].kind \in {"removeTodo", "clearScope"}
        /\ tasks[other].scope = tasks[slot].scope

C36_Step ==
    \A slot \in Slots :
        UndoAccept(slot) =>
            StoredBucket(globalState', workspaceState', tasks[slot].scope)
                = Entities(tasks[slot].todos)

\* C36: accepting the undo offered by a removeTodo or a clearScope writes back the bucket
\* that this very operation captured, whatever other destructive operation ran on the
\* bucket in between.
C36_UndoRestoresOwnCapture == [][C36_Step]_vars

\* an undo was accepted while a second destructive operation on the same bucket was
\* offering its own
C36_Witness ==
    \E slot \in Slots :
        /\ tasks[slot].pc = "broadcast"
        /\ tasks[slot].kind \in {"removeTodo", "clearScope"}
        /\ tasks[slot].w = 2
        /\ LaterDestructive(slot)
\* ---------------------------------------------------------------------- C37
\* a removeTodo or clearScope whose capture is the one the slot of this key holds (nothing
\* else was handled for the bucket since it read it) is still offering its undo
OffersLatestCapture(scopeKey) ==
    \E slot \in Slots :
        /\ tasks[slot].pc = "undoOffer"
        /\ ScopeKey(tasks[slot].scope) = scopeKey
        /\ tasks[slot].clean
        /\ HasSnapshot(scopeKey)
        /\ Entities(undoSnapshots[scopeKey]) = Entities(tasks[slot].todos)

C37_Step ==
    \A scopeKey \in ScopeKeys :
        (CleanupFires(scopeKey) /\ OffersLatestCapture(scopeKey))
            => undoSnapshots' = undoSnapshots

\* C37: the cleanup timer that a declined or ignored undo started never discards the
\* snapshot of a later removeTodo or clearScope on the same scope key that is still
\* offering its undo.
C37_CleanupSparesLaterSnapshot == [][C37_Step]_vars

\* the cleanup of an earlier, declined undo is pending while a later operation on the same
\* scope key offers its undo
C37_Witness ==
    \E scopeKey \in ScopeKeys :
        /\ cleanups[scopeKey] > 0
        /\ OffersLatestCapture(scopeKey)
\* ---------------------------------------------------------------------- C38
\* clearScope runs up to its confirmation dialog for this bucket
ClearAsks(target) ==
    \E mode \in Modes : \E scope \in WebviewScopes :
        /\ ClearScope(mode, scope)
        /\ ScopeFromWebviewScope(scope) = target
        /\ NeedsConfirmation(ReadTodos(target))

\* the part of a declined clearScope after the dialog
ClearDeclined(target) == \E slot \in Slots : ConfirmDecline(slot) /\ tasks[slot].scope = target

StoresKept == UNCHANGED <<globalState, workspaceState, undoSnapshots>>
TimersKept == UNCHANGED <<timers, timeouts>>
NothingPosted == UNCHANGED <<providers, lastState>>

C38_Step ==
    \A target \in Targets :
        /\ ClearAsks(target) => StoresKept /\ TimersKept /\ NothingPosted
        /\ ClearDeclined(target) =>
              /\ StoresKept /\ TimersKept /\ NothingPosted
              /\ lastDone'.w = 0 /\ lastDone'.b = 0

\* C38: a clearScope that is declined at its confirmation dialog leaves the bucket, the
\* snapshot slots and the pending auto-removal timers of the bucket's items as they were
\* before it started, and broadcasts nothing: neither the part before the dialog nor the
\* return after the refusal changes any of them.
C38_DeclinedClearChangesNothing == [][C38_Step]_vars

\* a clearScope was declined and a completed item of its bucket, whose timer had been
\* armed, is left without one
C38_Witness ==
    /\ lastDone = Returned("clearScope", 0, 0)
    /\ Quiescent
    /\ \E n \in DOMAIN sched :
          /\ sched[n].scope = GlobalTarget
          /\ sched[n].stopped # "no"
          /\ KeyOf(n) \notin DOMAIN timers
          /\ \E e \in Range(StoredBucket(globalState, workspaceState, GlobalTarget)) :
                e.id = sched[n].todoId /\ e.completed
\* ---------------------------------------------------------------------- C39
\* the ids the bucket of a destructive operation holds that the operation did not read:
\* items created after it read the bucket
CreatedSince(slot) ==
    Ids(StoredBucket(globalState, workspaceState, tasks[slot].scope))
        \ Ids(tasks[slot].todos)

C39_Step ==
    \A slot \in Slots :
        UndoAccept(slot) =>
            CreatedSince(slot)
                \subseteq Ids(StoredBucket(globalState', workspaceState', tasks[slot].scope))

\* C39: when the undo of a removeTodo or clearScope is accepted, every item that was
\* created in the bucket since the operation and is stored there is still stored after
\* the restore.
C39_RestoreKeepsCreated == [][C39_Step]_vars

\* the undo of a removal or clear was accepted after an item had been created in its bucket
C39_Witness ==
    \E slot \in Slots :
        /\ tasks[slot].pc = "broadcast"
        /\ tasks[slot].kind \in {"removeTodo", "clearScope"}
        /\ tasks[slot].w = 2
        /\ \E id \in DOMAIN origin :
              /\ origin[id] = tasks[slot].scope
              /\ id \notin Ids(tasks[slot].todos)
              /\ \A other \in Ids(tasks[slot].todos) : id > other
\* ---------------------------------------------------------------------- C40
\* the ids a stateUpdate shows for a bucket
ShownIds(message, scope) ==
    IF scope.scope = "global" THEN Ids(message.payload.global.todos)
    ELSE Ids(message.payload.folders[scope.workspaceFolder].todos)

\* cues are handed to the provider of the item's scope and to no other
CueOnOwnChannel ==
    /\ \A m \in Modes : \A i \in DOMAIN posted[m] :
          posted[m][i].type = "autoDeleteCue" => ChannelOf(posted[m][i].scope) = m
    /\ \A n \in DOMAIN sched :
          sched[n].cues > 0 =>
              \E i \in DOMAIN posted[ChannelOf(sched[n].scope)] :
                  posted[ChannelOf(sched[n].scope)][i]
                      = AutoDeleteCue(sched[n].scope, sched[n].todoId)

\* a stateUpdate that no longer shows an auto-removed item reaches the webview of the
\* item's channel only after the item's cue
CueBeforeRemovalUpdate ==
    \A n \in DOMAIN sched :
        LET m == ChannelOf(sched[n].scope)
        IN \A j \in DOMAIN delivered[m] :
              (/\ sched[n].removals > 0
               /\ delivered[m][j].type = "stateUpdate"
               /\ sched[n].todoId \notin ShownIds(delivered[m][j], sched[n].scope))
                  => \E i \in 1..(j - 1) :
                        delivered[m][i] = AutoDeleteCue(sched[n].scope, sched[n].todoId)

\* C40: the autoDeleteCue of an item is posted only to the channel of the item's scope, and
\* that channel's webview receives it before the stateUpdate that no longer shows the
\* auto-removed item, also when both were buffered while the channel was not ready.
C40_CueOwnChannelFirst == CueOnOwnChannel /\ CueBeforeRemovalUpdate

\* the cue of the workspace item and the stateUpdate after its removal were both buffered
\* and then flushed to the projects webview, which has received nothing else but the
\* first state; the global webview received updates and no cue
C40_Witness ==
    LET cue == AutoDeleteCue(WorkspaceTarget("P1"), 3)
        d == delivered["projects"]
    IN /\ Len(d) >= 3
       /\ d[2] = cue
       /\ d[3].type = "stateUpdate" /\ 3 \notin ShownIds(d[3], WorkspaceTarget("P1"))
       /\ providers["projects"].pendingMessages = <<>>
       /\ webviews["projects"].loads = 1
       /\ delivered["global"] # <<>>

====
